---- MODULE Spec2Model ----
(***************************************************************************)
(* Model of the GUI registries of SIFL: BasicInterface (storage vectors    *)
(* and the lock), MutableInterface (identifier maps, reverse index maps,   *)
(* swapElement, swap-remove) and InteractiveInterface (interactive         *)
(* partition, button map, hovered item, eventPressed).                     *)
(*                                                                         *)
(* Vectors are sequences; C++ slot i is position i+1 of the sequence.      *)
(* An iterator into an identifier map is modelled by the key it points to. *)
(* A widget record carries the label `owner`: the identifier it was added  *)
(* under (Static for addText/addSprite), which is its payload here.        *)
(*                                                                         *)
(* `build` is the build type: in "debug" a failed assert aborts the        *)
(* process; in "release" asserts are compiled out and the code goes on.    *)
(* An out-of-range element access in release is undefined behaviour: the   *)
(* run ends either "aborted" (a crash) or in the state the literal code    *)
(* produces, flagged "ub"; no operation is run after either.               *)
(***************************************************************************)
EXTENDS Integers, Sequences, FiniteSets, TLC

\* Bounds of the model.
MaxTexts == 3
MaxSprites == 3
\* Most texture holders of the global list, and most reserved textures of a sprite.
MaxHolders == 2
MaxSpriteTextures == 1
\* Most textures of the texture vector of a sprite, and the largest offset of a switch.
MaxTextureCount == 4
MaxOffset == 4
\* Most boxes of a multiple-question box.
MaxBoxes == 3
\* Most characters of the content of a text.
MaxContent == 2
\* The bits of a char.
CharBits == 8
\* Bits of long long and of size_t.
IndexBits == 64

\* Input sets.
Ids == {"a", "b"}
Cursors == {0, 1, 2}
Funcs == {"f"}
TextureNames == {"t", "u"}
\* The addresses at which a BasicInterface is constructed, and the windows.
Interfaces == {"i1", "i2", "i3"}
Windows == {"w1", "w2"}

nullptr == "nullptr"
Static == "static"
writingCursorIdentifier == "__wc"
This == "this"
\* Another InteractiveInterface of the process, and an interface that is not interactive.
Other == "other"
Basic == "basic"

VARIABLES
    build, status,
    m_lockState,
    m_texts, m_sprites,
    m_dynamicTexts, m_dynamicSprites,
    m_indexesForEachDynamicTexts, m_indexesForEachDynamicSprites,
    m_nbOfButtonTexts, m_nbOfButtonSprites,
    m_allButtons,
    s_hoveredItem,
    m_writingTextIdentifier,
    otherLive,
    lastInvoked, lastArgument,
    interactiveTexts, interactiveSprites,
    lastSlider,
    s_allTextures, s_accessToTextures, s_allUniqueTextures,
    m_textures, m_curTextureIndex, previousTextureIndex, indexOffset,
    mqbBoxes, multipleChoices, atLeastOne, checkedBoxes, lastCheck,
    m_writingFunction, content, lastCharacter, invocations, invokedWith,
    lastSwapped,
    s_allInterfaces, m_window, liveInterfaces

vars == <<build, status, m_lockState, m_texts, m_sprites,
          m_dynamicTexts, m_dynamicSprites,
          m_indexesForEachDynamicTexts, m_indexesForEachDynamicSprites,
          m_nbOfButtonTexts, m_nbOfButtonSprites, m_allButtons,
          s_hoveredItem, m_writingTextIdentifier, otherLive,
          lastInvoked, lastArgument, interactiveTexts, interactiveSprites,
          lastSlider, s_allTextures, s_accessToTextures, s_allUniqueTextures,
          m_textures, m_curTextureIndex, previousTextureIndex, indexOffset,
          mqbBoxes, multipleChoices, atLeastOne, checkedBoxes, lastCheck,
          m_writingFunction, content, lastCharacter, invocations, invokedWith,
          lastSwapped, s_allInterfaces, m_window, liveInterfaces>>

textVars == <<m_texts, m_dynamicTexts, m_indexesForEachDynamicTexts>>
spriteVars == <<m_sprites, m_dynamicSprites, m_indexesForEachDynamicSprites>>
interactiveVars == <<m_nbOfButtonTexts, m_nbOfButtonSprites, m_allButtons,
                     s_hoveredItem, m_writingTextIdentifier, otherLive,
                     interactiveTexts, interactiveSprites>>

\* Everything but lastInvoked and lastArgument: the callback run by the call that
\* just returned and the argument it was given.
state == <<build, status, m_lockState, textVars, spriteVars, interactiveVars>>
NoCallback == lastInvoked' = nullptr /\ lastArgument' = nullptr

\* The global texture store of SpriteWrapper.
textureVars == <<s_allTextures, s_accessToTextures, s_allUniqueTextures>>

\* The texture vector of one sprite and its current index, with the index before
\* the last switchToNextTexture and the offset that call was given.
switchVars == <<m_textures, m_curTextureIndex, previousTextureIndex, indexOffset>>

\* One multiple-question box: the current texture index of each of its box sprites
\* (1 is the checked texture), the two flags the application passes to checkBox for
\* it, and the result and the argument of the last checkBox call.
mqbVars == <<mqbBoxes, multipleChoices, atLeastOne, checkedBoxes, lastCheck>>

\* The writing: the function given to setWritingText, the content of each dynamic
\* text, and, of the last textEntered call, the character, the number of times it
\* invoked the writing function and the text it invoked it with.
entryVars == <<m_writingFunction, content, lastCharacter, invocations, invokedWith>>

\* The interfaces of the process: the collection of all interfaces by window, the
\* window of each interface, and the interfaces that are constructed and not destroyed.
registryVars == <<s_allInterfaces, m_window, liveInterfaces>>

\* What the compound elements and the resources add to the registries: the slider
\* that the call that just returned added, the texture store and a sprite's textures.
compoundVars == <<lastSlider, textureVars, switchVars, mqbVars, entryVars, lastSwapped,
                  registryVars>>

----------------------------------------------------------------------------
\* Maps (std::unordered_map) as functions.

EmptyMap == [k \in {} |-> 0]
MapPut(m, k, v) == [x \in (DOMAIN m) \cup {k} |-> IF x = k THEN v ELSE m[x]]
MapErase(m, k) == [x \in (DOMAIN m) \ {k} |-> m[x]]

\* A record of a storage vector (TextWrapper / SpriteWrapper).
Wrapper(owner) == [owner |-> owner, hide |-> FALSE]

\* getGlobalBounds() of the widget added under an identifier, as the set of cursor
\* positions it contains: "a" and "b" overlap at 1, only "b" holds 2, nothing holds 0.
Bounds(owner) == IF owner = "a" THEN {1} ELSE IF owner = "b" THEN {1, 2} ELSE {}

\* What an out-of-range read of a vector may find.
GarbageRecords == [owner : {"garbage"}, hide : BOOLEAN]

\* The default-constructed Item.
NoItem == [igui |-> nullptr, identifier |-> "", ptr |-> [kind |-> "monostate", slot |-> 0]]
Item(igui, id, kind, slot) == [igui |-> igui, identifier |-> id, ptr |-> [kind |-> kind, slot |-> slot]]

\* A swap that only copies: vector[index1] = vector[index2].
VecSwapCopy(vector, index1, index2, junk) ==
    LET rd(i) == IF i < Len(vector) THEN vector[i + 1] ELSE junk
    IN [k \in 1..Len(vector) |-> IF k = index1 + 1 THEN rd(index2) ELSE vector[k]]

\* std::swap(vector[index1], vector[index2]); a slot past the end reads as junk and
\* a write to it is lost to the sequence.
VecSwap(vector, index1, index2, junk) ==
    LET rd(i) == IF i < Len(vector) THEN vector[i + 1] ELSE junk
    IN [k \in 1..Len(vector) |->
            IF k = index1 + 1 THEN rd(index2)
            ELSE IF k = index2 + 1 THEN rd(index1)
            ELSE vector[k]]

\* Preconditions of swapElement without the assertion on the lock.
SwapOutcomeIgnoresLock(index1, index2, size, locked) ==
    IF build = "debug" /\ (index1 >= size \/ index2 >= size) THEN "aborted"
    ELSE IF index1 # index2 /\ (index1 >= size \/ index2 >= size) THEN "ub"
    ELSE "ok"

\* The preconditions of swapElement: "ok", "aborted" (an assert fails, debug) or
\* "ub" (release: an element out of range is accessed).
SwapOutcome(index1, index2, size, locked) ==
    IF build = "debug" /\ (index1 >= size \/ index2 >= size \/ locked) THEN "aborted"
    ELSE IF index1 # index2 /\ (index1 >= size \/ index2 >= size) THEN "ub"
    ELSE "ok"

\* swapElement that keeps the reverse entry of the slot a tracked record has left.
SwapElementKeepsOldReverse(index1, index2, vector, identifierMap, indexMap, junk) ==
    LET same == [vector |-> vector, identifierMap |-> identifierMap, indexMap |-> indexMap]
        swapped == VecSwap(vector, index1, index2, junk)
        has1 == index1 \in DOMAIN indexMap
        has2 == index2 \in DOMAIN indexMap
    IN IF index1 = index2 THEN same
       ELSE IF ~has1 /\ ~has2 THEN [same EXCEPT !.vector = swapped]
       ELSE IF has1 /\ has2 THEN
            [vector |-> swapped,
             identifierMap |-> MapPut(MapPut(identifierMap, indexMap[index2], index1),
                                      indexMap[index1], index2),
             indexMap |-> [indexMap EXCEPT ![index1] = indexMap[index2],
                                           ![index2] = indexMap[index1]]]
       ELSE LET dyn == IF has1 THEN index1 ELSE index2
                id == indexMap[dyn]
                new == index2 + index1 - identifierMap[id]
            IN [vector |-> swapped,
                identifierMap |-> [identifierMap EXCEPT ![id] = new],
                indexMap |-> MapPut(indexMap, new, id)]

\* swapElement that leaves the reverse map as it was when both slots are tracked.
SwapElementStaleReverse(index1, index2, vector, identifierMap, indexMap, junk) ==
    LET same == [vector |-> vector, identifierMap |-> identifierMap, indexMap |-> indexMap]
        swapped == VecSwap(vector, index1, index2, junk)
        has1 == index1 \in DOMAIN indexMap
        has2 == index2 \in DOMAIN indexMap
    IN IF index1 = index2 THEN same
       ELSE IF ~has1 /\ ~has2 THEN [same EXCEPT !.vector = swapped]
       ELSE IF has1 /\ has2 THEN
            [vector |-> swapped,
             identifierMap |-> MapPut(MapPut(identifierMap, indexMap[index2], index1),
                                      indexMap[index1], index2),
             indexMap |-> indexMap]
       ELSE LET dyn == IF has1 THEN index1 ELSE index2
                id == indexMap[dyn]
                new == index2 + index1 - identifierMap[id]
            IN [vector |-> swapped,
                identifierMap |-> [identifierMap EXCEPT ![id] = new],
                indexMap |-> MapErase(MapPut(indexMap, new, id), dyn)]

\* swapElement that renames only the first of two tracked slots in the identifier map.
SwapElementForgetsMoved(index1, index2, vector, identifierMap, indexMap, junk) ==
    LET same == [vector |-> vector, identifierMap |-> identifierMap, indexMap |-> indexMap]
        swapped == VecSwap(vector, index1, index2, junk)
        has1 == index1 \in DOMAIN indexMap
        has2 == index2 \in DOMAIN indexMap
    IN IF index1 = index2 THEN same
       ELSE IF ~has1 /\ ~has2 THEN [same EXCEPT !.vector = swapped]
       ELSE IF has1 /\ has2 THEN
            [vector |-> swapped,
             identifierMap |-> MapPut(identifierMap, indexMap[index1], index2),
             indexMap |-> [indexMap EXCEPT ![index1] = indexMap[index2],
                                           ![index2] = indexMap[index1]]]
       ELSE LET dyn == IF has1 THEN index1 ELSE index2
                id == indexMap[dyn]
                new == index2 + index1 - identifierMap[id]
            IN [vector |-> swapped,
                identifierMap |-> [identifierMap EXCEPT ![id] = new],
                indexMap |-> MapErase(MapPut(indexMap, new, id), dyn)]

\* MutableInterface::swapElement, past its assertions.
SwapElement(index1, index2, vector, identifierMap, indexMap, junk) ==
    LET same == [vector |-> vector, identifierMap |-> identifierMap, indexMap |-> indexMap]
        swapped == VecSwap(vector, index1, index2, junk)
        has1 == index1 \in DOMAIN indexMap
        has2 == index2 \in DOMAIN indexMap
    IN IF index1 = index2 THEN same
       ELSE IF ~has1 /\ ~has2 THEN [same EXCEPT !.vector = swapped]
       ELSE IF has1 /\ has2 THEN
            LET id1 == indexMap[index1]
                id2 == indexMap[index2]
                m1 == MapPut(identifierMap, id2, index1)
                m2 == MapPut(m1, id1, index2)
            IN [vector |-> swapped,
                identifierMap |-> m2,
                indexMap |-> [indexMap EXCEPT ![index1] = id2, ![index2] = id1]]
       ELSE LET dyn == IF has1 THEN index1 ELSE index2
                id == indexMap[dyn]
                new == index2 + index1 - identifierMap[id]
            IN [vector |-> swapped,
                identifierMap |-> [identifierMap EXCEPT ![id] = new],
                indexMap |-> MapErase(MapPut(indexMap, new, id), dyn)]

----------------------------------------------------------------------------
\* Construction.

\* No compound element has been added.
InitCompound ==
    /\ lastSlider = ""
    /\ s_allTextures = <<>>
    /\ s_accessToTextures = [k \in {} |-> 0]
    /\ s_allUniqueTextures = [k \in {} |-> FALSE]
    /\ m_textures = <<"t">>
    /\ m_curTextureIndex = 0
    /\ previousTextureIndex = 0
    /\ indexOffset = 0
    /\ mqbBoxes = <<>>
    /\ multipleChoices = FALSE
    /\ atLeastOne = FALSE
    /\ checkedBoxes = <<>>
    /\ lastCheck = -1
    /\ m_writingFunction = nullptr
    /\ content = [id \in Ids |-> <<>>]
    /\ lastCharacter = -1
    /\ invocations = 0
    /\ invokedWith = <<>>
    /\ lastSwapped = <<>>
    /\ s_allInterfaces = [k \in {} |-> <<>>]
    /\ m_window = [i \in Interfaces |-> nullptr]
    /\ liveInterfaces = {}

\* MutableInterface's constructor: everything empty, unlocked.
InitMutable ==
    /\ build \in {"debug", "release"}
    /\ InitCompound
    /\ status = "running"
    /\ m_lockState = FALSE
    /\ m_texts = <<>>
    /\ m_sprites = <<>>
    /\ m_dynamicTexts = EmptyMap
    /\ m_dynamicSprites = EmptyMap
    /\ m_indexesForEachDynamicTexts = EmptyMap
    /\ m_indexesForEachDynamicSprites = EmptyMap
    /\ m_nbOfButtonTexts = 0
    /\ m_nbOfButtonSprites = 0
    /\ m_allButtons = EmptyMap
    /\ s_hoveredItem = NoItem
    /\ m_writingTextIdentifier = ""
    /\ otherLive = TRUE
    /\ lastInvoked = nullptr
    /\ lastArgument = nullptr
    /\ interactiveTexts = {}
    /\ interactiveSprites = {}

\* InteractiveInterface's constructor: the hidden writing cursor is sprite 0.
Init ==
    /\ build \in {"debug", "release"}
    /\ InitCompound
    /\ status = "running"
    /\ m_lockState = FALSE
    /\ m_texts = <<>>
    /\ m_sprites = <<[owner |-> writingCursorIdentifier, hide |-> TRUE]>>
    /\ m_dynamicTexts = EmptyMap
    /\ m_dynamicSprites = MapPut(EmptyMap, writingCursorIdentifier, 0)
    /\ m_indexesForEachDynamicTexts = EmptyMap
    /\ m_indexesForEachDynamicSprites = MapPut(EmptyMap, 0, writingCursorIdentifier)
    /\ m_nbOfButtonTexts = 0
    /\ m_nbOfButtonSprites = 0
    /\ m_allButtons = EmptyMap
    /\ s_hoveredItem = NoItem
    /\ m_writingTextIdentifier = ""
    /\ otherLive = TRUE
    /\ lastInvoked = nullptr
    /\ lastArgument = nullptr
    /\ interactiveTexts = {}
    /\ interactiveSprites = {}

\* A failed assert: the process is gone, its memory is left as it was.
Abort == status' = "aborted" /\ UNCHANGED <<build, m_lockState, textVars, spriteVars, interactiveVars>>

----------------------------------------------------------------------------
\* BasicInterface / MutableInterface: additions.

\* BasicInterface::addText
AddText ==
    /\ status = "running"
    /\ NoCallback
    /\ Len(m_texts) < MaxTexts
    /\ IF build = "debug" /\ m_lockState THEN Abort
       ELSE /\ m_texts' = Append(m_texts, Wrapper(Static))
            /\ UNCHANGED <<build, status, m_lockState, m_dynamicTexts,
                           m_indexesForEachDynamicTexts, spriteVars, interactiveVars>>

\* BasicInterface::addSprite
AddSprite ==
    /\ status = "running"
    /\ NoCallback
    /\ Len(m_sprites) < MaxSprites
    /\ IF build = "debug" /\ m_lockState THEN Abort
       ELSE /\ m_sprites' = Append(m_sprites, Wrapper(Static))
            /\ UNCHANGED <<build, status, m_lockState, m_dynamicSprites,
                           m_indexesForEachDynamicSprites, textVars, interactiveVars>>

\* MutableInterface::addDynamicText
AddDynamicText(identifier) ==
    /\ status = "running"
    /\ NoCallback
    /\ IF identifier \in DOMAIN m_dynamicTexts THEN UNCHANGED state
       ELSE /\ Len(m_texts) < MaxTexts
            /\ IF build = "debug" /\ m_lockState THEN Abort
               ELSE /\ m_texts' = Append(m_texts, Wrapper(identifier))
                    /\ m_dynamicTexts' = MapPut(m_dynamicTexts, identifier, Len(m_texts))
                    /\ m_indexesForEachDynamicTexts' =
                           MapPut(m_indexesForEachDynamicTexts, Len(m_texts), identifier)
                    /\ UNCHANGED <<build, status, m_lockState, spriteVars, interactiveVars>>

\* An addDynamicSprite that does not look the identifier up before it adds.
AddDynamicSpriteAgain(identifier) ==
    /\ status = "running"
    /\ NoCallback
    /\ Len(m_sprites) < MaxSprites
    /\ IF build = "debug" /\ m_lockState THEN Abort
       ELSE /\ m_sprites' = Append(m_sprites, Wrapper(identifier))
            /\ m_dynamicSprites' = MapPut(m_dynamicSprites, identifier, Len(m_sprites))
            /\ m_indexesForEachDynamicSprites' =
                   MapPut(m_indexesForEachDynamicSprites, Len(m_sprites), identifier)
            /\ UNCHANGED <<build, status, m_lockState, textVars, interactiveVars>>

\* MutableInterface::addDynamicSprite
AddDynamicSprite(identifier) ==
    /\ status = "running"
    /\ NoCallback
    /\ IF identifier \in DOMAIN m_dynamicSprites THEN UNCHANGED state
       ELSE /\ Len(m_sprites) < MaxSprites
            /\ IF build = "debug" /\ m_lockState THEN Abort
               ELSE /\ m_sprites' = Append(m_sprites, Wrapper(identifier))
                    /\ m_dynamicSprites' = MapPut(m_dynamicSprites, identifier, Len(m_sprites))
                    /\ m_indexesForEachDynamicSprites' =
                           MapPut(m_indexesForEachDynamicSprites, Len(m_sprites), identifier)
                    /\ UNCHANGED <<build, status, m_lockState, textVars, interactiveVars>>

----------------------------------------------------------------------------
\* MutableInterface: lookups and swap-remove.

\* What a lookup returns for an absent identifier, and a pointer past the storage.
NullWrapper == [owner |-> nullptr, hide |-> TRUE]
DanglingWrapper == [owner |-> "dangling", hide |-> TRUE]

\* MutableInterface::getDynamicText: the record the identifier maps to, or nullptr.
getDynamicText(identifier) ==
    IF identifier \notin DOMAIN m_dynamicTexts THEN NullWrapper
    ELSE IF m_dynamicTexts[identifier] < Len(m_texts) THEN m_texts[m_dynamicTexts[identifier] + 1]
    ELSE DanglingWrapper

\* MutableInterface::getDynamicSprite
getDynamicSprite(identifier) ==
    IF identifier \notin DOMAIN m_dynamicSprites THEN NullWrapper
    ELSE IF m_dynamicSprites[identifier] < Len(m_sprites) THEN m_sprites[m_dynamicSprites[identifier] + 1]
    ELSE DanglingWrapper

\* MutableInterface::removeDynamicText for a present identifier, past its assert:
\* swap with the last slot, erase both map entries, pop_back.
BaseRemoveDynamicText(identifier, junk) ==
    LET last == Len(m_texts) - 1
        s == SwapElement(m_dynamicTexts[identifier], last, m_texts,
                         m_dynamicTexts, m_indexesForEachDynamicTexts, junk)
    IN [vector |-> SubSeq(s.vector, 1, last),
        identifierMap |-> MapErase(s.identifierMap, identifier),
        indexMap |-> MapErase(s.indexMap, last)]

\* MutableInterface::removeDynamicSprite for a present identifier, past its assert.
BaseRemoveDynamicSprite(identifier, junk) ==
    LET last == Len(m_sprites) - 1
        s == SwapElement(last, m_dynamicSprites[identifier], m_sprites,
                         m_dynamicSprites, m_indexesForEachDynamicSprites, junk)
    IN [vector |-> SubSeq(s.vector, 1, last),
        identifierMap |-> MapErase(s.identifierMap, identifier),
        indexMap |-> MapErase(s.indexMap, last)]

\* removeDynamicText called on a MutableInterface object.
MutableRemoveDynamicText(identifier) ==
    /\ status = "running"
    /\ NoCallback
    /\ IF build = "debug" /\ m_lockState THEN Abort
       ELSE IF identifier \notin DOMAIN m_dynamicTexts THEN UNCHANGED state
       ELSE \E junk \in GarbageRecords :
            LET base == BaseRemoveDynamicText(identifier, junk)
            IN /\ m_texts' = base.vector
               /\ m_dynamicTexts' = base.identifierMap
               /\ m_indexesForEachDynamicTexts' = base.indexMap
               /\ UNCHANGED <<build, status, m_lockState, spriteVars, interactiveVars>>

\* removeDynamicSprite called on a MutableInterface object.
MutableRemoveDynamicSprite(identifier) ==
    /\ status = "running"
    /\ NoCallback
    /\ IF build = "debug" /\ m_lockState THEN Abort
       ELSE IF identifier \notin DOMAIN m_dynamicSprites THEN UNCHANGED state
       ELSE \E junk \in GarbageRecords :
            LET base == BaseRemoveDynamicSprite(identifier, junk)
            IN /\ m_sprites' = base.vector
               /\ m_dynamicSprites' = base.identifierMap
               /\ m_indexesForEachDynamicSprites' = base.indexMap
               /\ UNCHANGED <<build, status, m_lockState, textVars, interactiveVars>>

----------------------------------------------------------------------------
\* InteractiveInterface.

\* One use of a button less: --count, the entry erased at count <= 0.
ReleaseButton(buttons, identifier) ==
    IF buttons[identifier].count - 1 <= 0 THEN MapErase(buttons, identifier)
    ELSE [buttons EXCEPT ![identifier].count = @ - 1]

\* The sprites after setWritingText(""): the writing cursor is hidden.
WritingDisabled ==
    [m_sprites EXCEPT ![m_dynamicSprites[writingCursorIdentifier] + 1].hide = TRUE]

\* InteractiveInterface::removeDynamicText
RemoveDynamicText(identifier) ==
    /\ status = "running"
    /\ NoCallback
    /\ IF identifier \notin DOMAIN m_dynamicTexts THEN UNCHANGED state
       ELSE IF build = "debug" /\ m_lockState THEN Abort
       ELSE \E junk \in GarbageRecords :
            LET index == m_dynamicTexts[identifier]
                hovered == IF s_hoveredItem.igui = This /\ s_hoveredItem.identifier = identifier
                           THEN NoItem ELSE s_hoveredItem
                written == m_writingTextIdentifier = identifier
                base == BaseRemoveDynamicText(identifier, junk)
                nb == m_nbOfButtonTexts - 1
                outcome == IF SwapOutcome(index, nb, Len(base.vector), m_lockState) # "ok"
                           THEN SwapOutcome(index, nb, Len(base.vector), m_lockState)
                           ELSE IF identifier \notin DOMAIN m_allButtons THEN "ub"
                           ELSE "ok"
                s == SwapElement(index, nb, base.vector, base.identifierMap, base.indexMap, junk)
            IN IF index >= m_nbOfButtonTexts
               THEN /\ m_texts' = base.vector
                    /\ m_dynamicTexts' = base.identifierMap
                    /\ m_indexesForEachDynamicTexts' = base.indexMap
                    /\ s_hoveredItem' = hovered
                    /\ m_sprites' = IF written THEN WritingDisabled ELSE m_sprites
                    /\ m_writingTextIdentifier' = IF written THEN "" ELSE m_writingTextIdentifier
                    /\ interactiveTexts' = interactiveTexts \ {identifier}
                    /\ UNCHANGED <<build, status, m_lockState, m_dynamicSprites,
                                   m_indexesForEachDynamicSprites, m_nbOfButtonTexts,
                                   m_nbOfButtonSprites, m_allButtons, otherLive,
                                   interactiveSprites>>
               ELSE IF outcome = "aborted" THEN Abort
               ELSE \/ outcome = "ub" /\ Abort
                    \/ /\ status' = IF outcome = "ub" THEN "ub" ELSE status
                       /\ m_texts' = s.vector
                       /\ m_dynamicTexts' = s.identifierMap
                       /\ m_indexesForEachDynamicTexts' = s.indexMap
                       /\ m_nbOfButtonTexts' = nb
                       /\ m_allButtons' = IF identifier \in DOMAIN m_allButtons
                                          THEN ReleaseButton(m_allButtons, identifier)
                                          ELSE m_allButtons
                       /\ s_hoveredItem' = hovered
                       /\ m_sprites' = IF written THEN WritingDisabled ELSE m_sprites
                       /\ m_writingTextIdentifier' = IF written THEN "" ELSE m_writingTextIdentifier
                       /\ interactiveTexts' = interactiveTexts \ {identifier}
                       /\ UNCHANGED <<build, m_lockState, m_dynamicSprites,
                                      m_indexesForEachDynamicSprites, m_nbOfButtonSprites,
                                      otherLive, interactiveSprites>>

\* A removeDynamicSprite that works on the texts.
RemoveDynamicSpriteOfTexts(identifier) == RemoveDynamicText(identifier)

\* A removeDynamicSprite that empties the hovered item before it looks the identifier up.
RemoveDynamicSpriteResetsFirst(identifier) ==
    /\ status = "running"
    /\ NoCallback
    /\ IF identifier \notin DOMAIN m_dynamicSprites
       THEN /\ s_hoveredItem' = IF s_hoveredItem.igui = This /\ s_hoveredItem.identifier = identifier
                                THEN NoItem ELSE s_hoveredItem
            /\ UNCHANGED <<build, status, m_lockState, textVars, spriteVars, m_nbOfButtonTexts,
                           m_nbOfButtonSprites, m_allButtons, m_writingTextIdentifier,
                           otherLive, interactiveTexts, interactiveSprites>>
       ELSE IF build = "debug" /\ m_lockState THEN Abort
       ELSE \E junk \in GarbageRecords :
            LET index == m_dynamicSprites[identifier]
                hovered == IF s_hoveredItem.igui = This /\ s_hoveredItem.identifier = identifier
                           THEN NoItem ELSE s_hoveredItem
                base == BaseRemoveDynamicSprite(identifier, junk)
                nb == m_nbOfButtonSprites - 1
                outcome == IF SwapOutcome(index, nb, Len(base.vector), m_lockState) # "ok"
                           THEN SwapOutcome(index, nb, Len(base.vector), m_lockState)
                           ELSE IF identifier \notin DOMAIN m_allButtons THEN "ub"
                           ELSE "ok"
                s == SwapElement(index, nb, base.vector, base.identifierMap, base.indexMap, junk)
            IN IF index >= m_nbOfButtonSprites
               THEN /\ m_sprites' = base.vector
                    /\ m_dynamicSprites' = base.identifierMap
                    /\ m_indexesForEachDynamicSprites' = base.indexMap
                    /\ s_hoveredItem' = hovered
                    /\ interactiveSprites' = interactiveSprites \ {identifier}
                    /\ UNCHANGED <<build, status, m_lockState, textVars, m_nbOfButtonTexts,
                                   m_nbOfButtonSprites, m_allButtons, m_writingTextIdentifier,
                                   otherLive, interactiveTexts>>
               ELSE IF outcome = "aborted" THEN Abort
               ELSE \/ outcome = "ub" /\ Abort
                    \/ /\ status' = IF outcome = "ub" THEN "ub" ELSE status
                       /\ m_sprites' = s.vector
                       /\ m_dynamicSprites' = s.identifierMap
                       /\ m_indexesForEachDynamicSprites' = s.indexMap
                       /\ m_nbOfButtonSprites' = nb
                       /\ m_allButtons' = IF identifier \in DOMAIN m_allButtons
                                          THEN ReleaseButton(m_allButtons, identifier)
                                          ELSE m_allButtons
                       /\ s_hoveredItem' = hovered
                       /\ interactiveSprites' = interactiveSprites \ {identifier}
                       /\ UNCHANGED <<build, m_lockState, textVars, m_nbOfButtonTexts,
                                      m_writingTextIdentifier, otherLive, interactiveTexts>>

\* InteractiveInterface::removeDynamicSprite
RemoveDynamicSprite(identifier) ==
    /\ status = "running"
    /\ NoCallback
    /\ IF identifier \notin DOMAIN m_dynamicSprites THEN UNCHANGED state
       ELSE IF build = "debug" /\ m_lockState THEN Abort
       ELSE \E junk \in GarbageRecords :
            LET index == m_dynamicSprites[identifier]
                hovered == IF s_hoveredItem.igui = This /\ s_hoveredItem.identifier = identifier
                           THEN NoItem ELSE s_hoveredItem
                base == BaseRemoveDynamicSprite(identifier, junk)
                nb == m_nbOfButtonSprites - 1
                outcome == IF SwapOutcome(index, nb, Len(base.vector), m_lockState) # "ok"
                           THEN SwapOutcome(index, nb, Len(base.vector), m_lockState)
                           ELSE IF identifier \notin DOMAIN m_allButtons THEN "ub"
                           ELSE "ok"
                s == SwapElement(index, nb, base.vector, base.identifierMap, base.indexMap, junk)
            IN IF index >= m_nbOfButtonSprites
               THEN /\ m_sprites' = base.vector
                    /\ m_dynamicSprites' = base.identifierMap
                    /\ m_indexesForEachDynamicSprites' = base.indexMap
                    /\ s_hoveredItem' = hovered
                    /\ interactiveSprites' = interactiveSprites \ {identifier}
                    /\ UNCHANGED <<build, status, m_lockState, textVars, m_nbOfButtonTexts,
                                   m_nbOfButtonSprites, m_allButtons, m_writingTextIdentifier,
                                   otherLive, interactiveTexts>>
               ELSE IF outcome = "aborted" THEN Abort
               ELSE \/ outcome = "ub" /\ Abort
                    \/ /\ status' = IF outcome = "ub" THEN "ub" ELSE status
                       /\ m_sprites' = s.vector
                       /\ m_dynamicSprites' = s.identifierMap
                       /\ m_indexesForEachDynamicSprites' = s.indexMap
                       /\ m_nbOfButtonSprites' = nb
                       /\ m_allButtons' = IF identifier \in DOMAIN m_allButtons
                                          THEN ReleaseButton(m_allButtons, identifier)
                                          ELSE m_allButtons
                       /\ s_hoveredItem' = hovered
                       /\ interactiveSprites' = interactiveSprites \ {identifier}
                       /\ UNCHANGED <<build, m_lockState, textVars, m_nbOfButtonTexts,
                                      m_writingTextIdentifier, otherLive, interactiveTexts>>

\* InteractiveInterface::addInteractive
AddInteractive(identifier, function) ==
    /\ status = "running"
    /\ NoCallback
    /\ LET doesTextExist == identifier \in DOMAIN m_dynamicTexts
           doesSpriteExist == identifier \in DOMAIN m_dynamicSprites
           promoteText == doesTextExist /\ m_dynamicTexts[identifier] >= m_nbOfButtonTexts
           promoteSprite == doesSpriteExist /\ m_dynamicSprites[identifier] >= m_nbOfButtonSprites
           outText == IF promoteText
                      THEN SwapOutcome(m_dynamicTexts[identifier], m_nbOfButtonTexts,
                                       Len(m_texts), m_lockState)
                      ELSE "ok"
           outSprite == IF promoteSprite
                        THEN SwapOutcome(m_dynamicSprites[identifier], m_nbOfButtonSprites,
                                         Len(m_sprites), m_lockState)
                        ELSE "ok"
           outcome == IF outText # "ok" THEN outText ELSE outSprite
           elemsThatUseFunction == (IF doesSpriteExist THEN 1 ELSE 0) + (IF doesTextExist THEN 1 ELSE 0)
       IN IF outcome = "aborted" THEN Abort
          ELSE \E junk \in GarbageRecords :
               LET t == IF promoteText
                        THEN SwapElement(m_dynamicTexts[identifier], m_nbOfButtonTexts, m_texts,
                                         m_dynamicTexts, m_indexesForEachDynamicTexts, junk)
                        ELSE [vector |-> m_texts, identifierMap |-> m_dynamicTexts,
                              indexMap |-> m_indexesForEachDynamicTexts]
                   sp == IF promoteSprite
                         THEN SwapElement(m_dynamicSprites[identifier], m_nbOfButtonSprites, m_sprites,
                                          m_dynamicSprites, m_indexesForEachDynamicSprites, junk)
                         ELSE [vector |-> m_sprites, identifierMap |-> m_dynamicSprites,
                               indexMap |-> m_indexesForEachDynamicSprites]
               IN \/ outcome = "ub" /\ Abort
                  \/ /\ status' = IF outcome = "ub" THEN "ub" ELSE status
                     /\ m_texts' = t.vector
                     /\ m_dynamicTexts' = t.identifierMap
                     /\ m_indexesForEachDynamicTexts' = t.indexMap
                     /\ m_nbOfButtonTexts' = m_nbOfButtonTexts + (IF promoteText THEN 1 ELSE 0)
                     /\ m_sprites' = sp.vector
                     /\ m_dynamicSprites' = sp.identifierMap
                     /\ m_indexesForEachDynamicSprites' = sp.indexMap
                     /\ m_nbOfButtonSprites' = m_nbOfButtonSprites + (IF promoteSprite THEN 1 ELSE 0)
                     /\ m_allButtons' = MapPut(m_allButtons, identifier,
                                               [function |-> function, count |-> elemsThatUseFunction])
                     /\ interactiveTexts' = interactiveTexts \cup
                                                (IF doesTextExist THEN {identifier} ELSE {})
                     /\ interactiveSprites' = interactiveSprites \cup
                                                  (IF doesSpriteExist THEN {identifier} ELSE {})
                     /\ UNCHANGED <<build, m_lockState, s_hoveredItem, m_writingTextIdentifier,
                                    otherLive>>

\* InteractiveInterface::lockInterface
LockInterface ==
    /\ status = "running"
    /\ NoCallback
    /\ m_lockState' = TRUE
    /\ UNCHANGED <<build, status, textVars, spriteVars, interactiveVars>>

\* The lowest slot below nb whose record is shown and contains the cursor, or -1.
FirstHit(vector, nb, cursorPos) ==
    LET hits == {i \in 0..(nb - 1) : /\ i < Len(vector)
                                      /\ ~vector[i + 1].hide
                                      /\ cursorPos \in Bounds(vector[i + 1].owner)}
    IN IF hits = {} THEN -1 ELSE CHOOSE i \in hits : \A j \in hits : i <= j

\* The record the fast path of eventUpdateHovered tests: through the stored pointer
\* when locked, through the identifier when not.
HoveredTarget ==
    LET p == s_hoveredItem.ptr
    IN IF p.kind = "text"
       THEN IF m_lockState
            THEN (IF p.slot < Len(m_texts) THEN m_texts[p.slot + 1] ELSE DanglingWrapper)
            ELSE getDynamicText(s_hoveredItem.identifier)
       ELSE IF m_lockState
            THEN (IF p.slot < Len(m_sprites) THEN m_sprites[p.slot + 1] ELSE DanglingWrapper)
            ELSE getDynamicSprite(s_hoveredItem.identifier)

Terminated == [igui |-> "terminate", identifier |-> "", ptr |-> [kind |-> "monostate", slot |-> 0]]

\* A scan that looks at the sprites before the texts.
ScanHoveredSpritesFirst(cursorPos) ==
    LET t == FirstHit(m_texts, m_nbOfButtonTexts, cursorPos)
        sp == FirstHit(m_sprites, m_nbOfButtonSprites, cursorPos)
    IN IF sp >= 0
       THEN (IF sp \in DOMAIN m_indexesForEachDynamicSprites
             THEN Item(This, m_indexesForEachDynamicSprites[sp], "sprite", sp)
             ELSE Terminated)
       ELSE IF t >= 0
       THEN (IF t \in DOMAIN m_indexesForEachDynamicTexts
             THEN Item(This, m_indexesForEachDynamicTexts[t], "text", t)
             ELSE Terminated)
       ELSE NoItem

\* The full scan of eventUpdateHovered: texts first, then sprites.
\* Terminated when indexMap.at(i) throws in this noexcept function.
ScanHovered(cursorPos) ==
    LET t == FirstHit(m_texts, m_nbOfButtonTexts, cursorPos)
        sp == FirstHit(m_sprites, m_nbOfButtonSprites, cursorPos)
    IN IF t >= 0
       THEN (IF t \in DOMAIN m_indexesForEachDynamicTexts
             THEN Item(This, m_indexesForEachDynamicTexts[t], "text", t)
             ELSE Terminated)
       ELSE IF sp >= 0
       THEN (IF sp \in DOMAIN m_indexesForEachDynamicSprites
             THEN Item(This, m_indexesForEachDynamicSprites[sp], "sprite", sp)
             ELSE Terminated)
       ELSE NoItem

\* The fast path of eventUpdateHovered is entered: an item of this interface is hovered.
FastPath == s_hoveredItem.igui = This /\ s_hoveredItem.ptr.kind # "monostate"

\* An inverted fast path: the hovered item is dropped while it contains the cursor.
eventUpdateHoveredInverted(cursorPos) ==
    IF FastPath /\ cursorPos \in Bounds(HoveredTarget.owner) THEN NoItem
    ELSE ScanHovered(cursorPos)

\* A scan that does not empty the hovered item before it starts.
eventUpdateHoveredKeepsItem(cursorPos) ==
    IF FastPath /\ cursorPos \in Bounds(HoveredTarget.owner) THEN s_hoveredItem
    ELSE IF ScanHovered(cursorPos) = NoItem THEN s_hoveredItem
    ELSE ScanHovered(cursorPos)

\* The item eventUpdateHovered(this, cursorPos) returns when every record it reads is
\* there: the hovered item if it still contains the cursor, else the result of the scan.
eventUpdateHovered(cursorPos) ==
    IF FastPath /\ cursorPos \in Bounds(HoveredTarget.owner) THEN s_hoveredItem
    ELSE ScanHovered(cursorPos)

\* InteractiveInterface::eventUpdateHovered(igui, cursorPos); the item it returns is
\* s_hoveredItem as it leaves it.
EventUpdateHovered(cursorPos) ==
    /\ status = "running"
    /\ NoCallback
    /\ LET unreadable == FastPath /\ HoveredTarget \in {NullWrapper, DanglingWrapper}
           scan == ScanHovered(cursorPos)
       IN IF unreadable
          THEN \/ Abort
               \/ /\ status' = "ub"
                  /\ s_hoveredItem' \in {s_hoveredItem} \cup (IF scan = Terminated THEN {} ELSE {scan})
                  /\ UNCHANGED <<build, m_lockState, textVars, spriteVars, m_nbOfButtonTexts,
                                 m_nbOfButtonSprites, m_allButtons, m_writingTextIdentifier,
                                 otherLive, interactiveTexts, interactiveSprites>>
          ELSE IF eventUpdateHovered(cursorPos) = Terminated THEN Abort
          ELSE /\ s_hoveredItem' = eventUpdateHovered(cursorPos)
               /\ UNCHANGED <<build, status, m_lockState, textVars, spriteVars, m_nbOfButtonTexts,
                              m_nbOfButtonSprites, m_allButtons, m_writingTextIdentifier,
                              otherLive, interactiveTexts, interactiveSprites>>

\* The items another interactive interface can report as hovered.
OtherItems == {Item(Other, "a", "text", 0)}

\* eventUpdateHovered(other, cursorPos) for another live InteractiveInterface, whose
\* widgets are not modelled: it leaves one of its items, or none, as the hovered item.
EventUpdateHoveredOther ==
    /\ status = "running"
    /\ NoCallback
    /\ otherLive
    /\ s_hoveredItem' \in OtherItems \cup {NoItem}
    /\ UNCHANGED <<build, status, m_lockState, textVars, spriteVars, m_nbOfButtonTexts,
                   m_nbOfButtonSprites, m_allButtons, m_writingTextIdentifier,
                   otherLive, interactiveTexts, interactiveSprites>>

\* eventUpdateHovered(BasicInterface*, cursorPos) for an interface that is not
\* interactive: the dynamic_cast fails and the hovered item is emptied.
EventUpdateHoveredBasic ==
    /\ status = "running"
    /\ NoCallback
    /\ s_hoveredItem' = NoItem
    /\ UNCHANGED <<build, status, m_lockState, textVars, spriteVars, m_nbOfButtonTexts,
                   m_nbOfButtonSprites, m_allButtons, m_writingTextIdentifier,
                   otherLive, interactiveTexts, interactiveSprites>>

\* A lookup of the callback that does not ask which interface owns the hovered item.
PressedFunctionAnyOwner ==
    IF s_hoveredItem.identifier \notin DOMAIN m_allButtons THEN nullptr
    ELSE m_allButtons[s_hoveredItem.identifier].function

\* The callback eventPressed(this) invokes, nullptr when it invokes none.
PressedFunction ==
    IF s_hoveredItem.igui # This THEN nullptr
    ELSE IF s_hoveredItem.identifier \notin DOMAIN m_allButtons THEN nullptr
    ELSE m_allButtons[s_hoveredItem.identifier].function

\* InteractiveInterface::eventPressed(this); lastInvoked records the callback it ran
\* and lastArgument the interface it passed to it.
EventPressed ==
    /\ status = "running"
    /\ lastInvoked' = PressedFunction
    /\ lastArgument' = IF PressedFunction # nullptr THEN This ELSE nullptr
    /\ UNCHANGED state

\* The callbacks the buttons of the other interface may hold.
OtherFuncs == {"g"}

\* InteractiveInterface::eventPressed(gui) for another interface: one that is not
\* interactive, or another InteractiveInterface, whose button map is not modelled.
EventPressedOther(gui) ==
    /\ status = "running"
    /\ gui = Other => otherLive
    /\ IF gui = Basic \/ s_hoveredItem.igui # gui
       THEN NoCallback
       ELSE \E function \in OtherFuncs \cup {nullptr} :
                /\ lastInvoked' = function
                /\ lastArgument' = IF function # nullptr THEN gui ELSE nullptr
    /\ UNCHANGED state

\* A user of the interface writes the public field hide of a dynamic text.
SetHideText(identifier, hide) ==
    /\ status = "running"
    /\ NoCallback
    /\ getDynamicText(identifier) \notin {NullWrapper, DanglingWrapper}
    /\ m_texts' = [m_texts EXCEPT ![m_dynamicTexts[identifier] + 1].hide = hide]
    /\ UNCHANGED <<build, status, m_lockState, m_dynamicTexts, m_indexesForEachDynamicTexts,
                   spriteVars, interactiveVars>>

\* A user of the interface writes the public field hide of a dynamic sprite.
SetHideSprite(identifier, hide) ==
    /\ status = "running"
    /\ NoCallback
    /\ getDynamicSprite(identifier) \notin {NullWrapper, DanglingWrapper}
    /\ m_sprites' = [m_sprites EXCEPT ![m_dynamicSprites[identifier] + 1].hide = hide]
    /\ UNCHANGED <<build, status, m_lockState, m_dynamicSprites, m_indexesForEachDynamicSprites,
                   textVars, interactiveVars>>

\* InteractiveInterface::setWritingText; "" disables writing.
SetWritingText(identifier) ==
    /\ status = "running"
    /\ NoCallback
    /\ LET cursor == m_dynamicSprites[writingCursorIdentifier] + 1
       IN IF identifier = ""
          THEN /\ m_sprites' = WritingDisabled
               /\ m_writingTextIdentifier' = ""
               /\ UNCHANGED <<build, status, m_lockState, textVars, m_dynamicSprites,
                              m_indexesForEachDynamicSprites, m_nbOfButtonTexts,
                              m_nbOfButtonSprites, m_allButtons, s_hoveredItem, otherLive,
                              interactiveTexts, interactiveSprites>>
          ELSE IF identifier \notin DOMAIN m_dynamicTexts /\ build = "debug" THEN Abort
          ELSE \/ identifier \notin DOMAIN m_dynamicTexts /\ Abort
               \/ /\ status' = IF identifier \notin DOMAIN m_dynamicTexts THEN "ub" ELSE status
                  /\ m_sprites' = [m_sprites EXCEPT ![cursor].hide = FALSE]
                  /\ m_writingTextIdentifier' = identifier
                  /\ UNCHANGED <<build, m_lockState, textVars, m_dynamicSprites,
                                 m_indexesForEachDynamicSprites, m_nbOfButtonTexts,
                                 m_nbOfButtonSprites, m_allButtons, s_hoveredItem, otherLive,
                                 interactiveTexts, interactiveSprites>>

\* InteractiveInterface::~InteractiveInterface: the interface is gone afterwards and
\* takes part in no further call.
Destroy ==
    /\ status = "running"
    /\ NoCallback
    /\ status' = "destroyed"
    /\ m_allButtons' = EmptyMap
    /\ m_writingTextIdentifier' = ""
    /\ s_hoveredItem' = IF s_hoveredItem.igui = This THEN NoItem ELSE s_hoveredItem
    /\ UNCHANGED <<build, m_lockState, textVars, spriteVars, m_nbOfButtonTexts,
                   m_nbOfButtonSprites, otherLive, interactiveTexts, interactiveSprites>>

\* The destructor of the other InteractiveInterface.
DestroyOther ==
    /\ status = "running"
    /\ NoCallback
    /\ otherLive
    /\ otherLive' = FALSE
    /\ s_hoveredItem' = IF s_hoveredItem.igui = Other THEN NoItem ELSE s_hoveredItem
    /\ UNCHANGED <<build, status, m_lockState, textVars, spriteVars, m_nbOfButtonTexts,
                   m_nbOfButtonSprites, m_allButtons, m_writingTextIdentifier,
                   interactiveTexts, interactiveSprites>>

----------------------------------------------------------------------------
\* Compound elements: the slider.

sliderIdPrefix == "_sc_"

\* addSlider: the background sprite under the identifier, the cursor sprite under
\* the prefixed identifier, addInteractive(identifier), then the value text under
\* the identifier. (The two textures are created once, before the first slider.)
AddSlider(identifier) ==
    /\ status = "running"
    /\ NoCallback
    /\ LET cursor == sliderIdPrefix \o identifier
           \* gui->addDynamicSprite(identifier, ...); gui->addDynamicSprite(cursor, ...)
           newSprites == SelectSeq(<<identifier, cursor>>, LAMBDA id : id \notin DOMAIN m_dynamicSprites)
           sprites1 == m_sprites \o [k \in 1..Len(newSprites) |-> Wrapper(newSprites[k])]
           dynamicSprites1 ==
               [id \in DOMAIN m_dynamicSprites \cup {identifier, cursor} |->
                    IF id \in DOMAIN m_dynamicSprites THEN m_dynamicSprites[id]
                    ELSE Len(m_sprites) + (CHOOSE k \in 1..Len(newSprites) : newSprites[k] = id) - 1]
           indexes1 ==
               [i \in DOMAIN m_indexesForEachDynamicSprites
                        \cup {Len(m_sprites) + k - 1 : k \in 1..Len(newSprites)} |->
                    IF i \in DOMAIN m_indexesForEachDynamicSprites
                    THEN m_indexesForEachDynamicSprites[i]
                    ELSE newSprites[i - Len(m_sprites) + 1]]
           \* gui->addInteractive(identifier)
           doesTextExist == identifier \in DOMAIN m_dynamicTexts
           promoteText == doesTextExist /\ m_dynamicTexts[identifier] >= m_nbOfButtonTexts
           promoteSprite == dynamicSprites1[identifier] >= m_nbOfButtonSprites
           outText == IF promoteText
                      THEN SwapOutcome(m_dynamicTexts[identifier], m_nbOfButtonTexts,
                                       Len(m_texts), m_lockState)
                      ELSE "ok"
           outSprite == IF promoteSprite
                        THEN SwapOutcome(dynamicSprites1[identifier], m_nbOfButtonSprites,
                                         Len(sprites1), m_lockState)
                        ELSE "ok"
           t == IF promoteText
                THEN SwapElement(m_dynamicTexts[identifier], m_nbOfButtonTexts, m_texts,
                                 m_dynamicTexts, m_indexesForEachDynamicTexts, NullWrapper)
                ELSE [vector |-> m_texts, identifierMap |-> m_dynamicTexts,
                      indexMap |-> m_indexesForEachDynamicTexts]
           sp == IF promoteSprite
                 THEN SwapElement(dynamicSprites1[identifier], m_nbOfButtonSprites, sprites1,
                                  dynamicSprites1, indexes1, NullWrapper)
                 ELSE [vector |-> sprites1, identifierMap |-> dynamicSprites1,
                       indexMap |-> indexes1]
           elemsThatUseFunction == 1 + (IF doesTextExist THEN 1 ELSE 0)
           \* gui->addDynamicText(identifier, "", ...)
           newText == ~doesTextExist
           asserted == \/ build = "debug" /\ m_lockState /\ (newSprites # <<>> \/ newText)
                       \/ outText = "aborted"
                       \/ outSprite = "aborted"
       IN /\ Len(sprites1) <= MaxSprites
          /\ Len(m_texts) + (IF newText THEN 1 ELSE 0) <= MaxTexts
          /\ IF asserted THEN Abort /\ UNCHANGED lastSlider
             ELSE /\ m_sprites' = sp.vector
                  /\ m_dynamicSprites' = sp.identifierMap
                  /\ m_indexesForEachDynamicSprites' = sp.indexMap
                  /\ m_nbOfButtonSprites' = m_nbOfButtonSprites + (IF promoteSprite THEN 1 ELSE 0)
                  /\ m_nbOfButtonTexts' = m_nbOfButtonTexts + (IF promoteText THEN 1 ELSE 0)
                  /\ m_allButtons' = MapPut(m_allButtons, identifier,
                                            [function |-> nullptr, count |-> elemsThatUseFunction])
                  /\ interactiveSprites' = interactiveSprites \cup {identifier}
                  /\ interactiveTexts' = interactiveTexts \cup
                                             (IF doesTextExist THEN {identifier} ELSE {})
                  /\ IF newText
                     THEN /\ m_texts' = Append(t.vector, Wrapper(identifier))
                          /\ m_dynamicTexts' = MapPut(t.identifierMap, identifier, Len(m_texts))
                          /\ m_indexesForEachDynamicTexts' =
                                 MapPut(t.indexMap, Len(m_texts), identifier)
                     ELSE /\ m_texts' = t.vector
                          /\ m_dynamicTexts' = t.identifierMap
                          /\ m_indexesForEachDynamicTexts' = t.indexMap
                  /\ lastSlider' = identifier
                  /\ UNCHANGED <<build, status, m_lockState, s_hoveredItem,
                                 m_writingTextIdentifier, otherLive>>

----------------------------------------------------------------------------
\* SpriteWrapper: the global texture store and the sprites that use it.

\* Addresses of the nodes of s_allTextures (TextureHolder*).
Holders == 1..MaxHolders

\* The node of the list at an address.
HolderAt(h) == CHOOSE t \in {s_allTextures[k] : k \in 1..Len(s_allTextures)} : t.address = h

\* The address the allocator gives the next node: the lowest that is free.
FreeHolders ==
    LET free == Holders \ {s_allTextures[k].address : k \in 1..Len(s_allTextures)}
    IN {h \in free : \A g \in free : h <= g}

\* SpriteWrapper::getTexture: the loaded texture under the name, or nullptr.
getTexture(name) ==
    IF name \notin DOMAIN s_accessToTextures THEN nullptr
    ELSE HolderAt(s_accessToTextures[name]).actualTexture

\* What createTexture tests before it registers anything.
AlreadyCreated(name) == getTexture(name) # nullptr

\* The store after createTexture went past its test: push_front of the new holder
\* at address h, insert into the name map (which keeps an entry that is there), and
\* the reserved set.
Created(name, fileName, shared, actualTexture, h) ==
    [all |-> <<[address |-> h, actualTexture |-> actualTexture, fileName |-> fileName]>>
                 \o s_allTextures,
     access |-> IF name \in DOMAIN s_accessToTextures THEN s_accessToTextures
                ELSE MapPut(s_accessToTextures, name, h),
     unique |-> IF shared = "Yes" THEN MapPut(s_allUniqueTextures, h, FALSE)
                ELSE s_allUniqueTextures]

\* The interface, untouched by a call on the texture store.
StoreCall ==
    /\ status = "running"
    /\ NoCallback
    /\ UNCHANGED <<state, lastSlider, switchVars, mqbVars, entryVars, lastSwapped, registryVars>>

\* SpriteWrapper::createTexture(name, fileName, shared, loadImmediately); a failed
\* load throws and leaves the store as it was.
CreateTexture(name, fileName, shared, loadImmediately) ==
    /\ StoreCall
    /\ IF AlreadyCreated(name) THEN UNCHANGED textureVars
       ELSE \/ loadImmediately /\ UNCHANGED textureVars
            \/ /\ Len(s_allTextures) < MaxHolders
               /\ \E h \in FreeHolders :
                      LET c == Created(name, fileName, shared,
                                       IF loadImmediately THEN "texture" ELSE nullptr, h)
                      IN /\ s_allTextures' = c.all
                         /\ s_accessToTextures' = c.access
                         /\ s_allUniqueTextures' = c.unique

\* SpriteWrapper::createTexture(name, sf::Texture, shared)
CreateTextureFromTexture(name, shared) ==
    /\ StoreCall
    /\ IF AlreadyCreated(name) THEN UNCHANGED textureVars
       ELSE /\ Len(s_allTextures) < MaxHolders
            /\ \E h \in FreeHolders :
                   LET c == Created(name, "", shared, "texture", h)
                   IN /\ s_allTextures' = c.all
                      /\ s_accessToTextures' = c.access
                      /\ s_allUniqueTextures' = c.unique

\* The list with the node at an address changed, and without it.
WithTexture(all, h, actualTexture) ==
    [k \in 1..Len(all) |-> IF all[k].address = h
                           THEN [all[k] EXCEPT !.actualTexture = actualTexture]
                           ELSE all[k]]
WithoutHolder(all, h) == SelectSeq(all, LAMBDA t : t.address # h)

\* SpriteWrapper::unloadTexture
UnloadTexture(name) ==
    /\ StoreCall
    /\ IF name \notin DOMAIN s_accessToTextures THEN UNCHANGED textureVars
       ELSE IF HolderAt(s_accessToTextures[name]).fileName = "" THEN UNCHANGED textureVars
       ELSE /\ s_allTextures' = WithTexture(s_allTextures, s_accessToTextures[name], nullptr)
            /\ UNCHANGED <<s_accessToTextures, s_allUniqueTextures>>

\* SpriteWrapper::removeTexture
RemoveTexture(name) ==
    /\ status = "running"
    /\ NoCallback
    /\ UNCHANGED <<lastSlider, switchVars, mqbVars, entryVars, lastSwapped, registryVars>>
    /\ IF name \notin DOMAIN s_accessToTextures THEN UNCHANGED <<state, textureVars>>
       ELSE IF build = "debug" /\ s_accessToTextures[name] \in DOMAIN s_allUniqueTextures
       THEN Abort /\ UNCHANGED textureVars
       ELSE /\ s_allTextures' = WithoutHolder(s_allTextures, s_accessToTextures[name])
            /\ s_accessToTextures' = MapErase(s_accessToTextures, name)
            /\ UNCHANGED <<state, s_allUniqueTextures>>

\* A sprite as its constructor leaves it before the first addTexture. (The texture
\* vector m_textures, which owns nothing, is left out.)
TexturedWrapper(owner) ==
    [owner |-> owner, hide |-> FALSE, m_uniqueTextures |-> <<>>]

InSeq(x, seq) == \E k \in 1..Len(seq) : seq[k] = x

\* SpriteWrapper::addTexture(name) on a sprite: "absent" (returns false), "aborted"
\* (the reserved texture is claimed by another instance, debug) or "ok" with the
\* sprite and the reserved set it leaves.
AddedTexture(sprite, name, unique) ==
    IF name \notin DOMAIN s_accessToTextures
    THEN [outcome |-> "absent", sprite |-> sprite, unique |-> unique]
    ELSE LET h == s_accessToTextures[name]
             reserved == h \in DOMAIN unique
         IN IF build = "debug" /\ reserved /\ unique[h] /\ ~InSeq(name, sprite.m_uniqueTextures)
            THEN [outcome |-> "aborted", sprite |-> sprite, unique |-> unique]
            ELSE LET pushed == sprite
                 IN IF build = "debug"
                    THEN IF reserved /\ ~unique[h]
                         THEN [outcome |-> "ok",
                               sprite |-> [pushed EXCEPT !.m_uniqueTextures = Append(@, name)],
                               unique |-> [unique EXCEPT ![h] = TRUE]]
                         ELSE [outcome |-> "ok", sprite |-> pushed, unique |-> unique]
                    ELSE IF reserved
                         THEN [outcome |-> "ok",
                               sprite |-> [pushed EXCEPT !.m_uniqueTextures = Append(@, name)],
                               unique |-> MapErase(unique, h)]
                         ELSE [outcome |-> "ok", sprite |-> pushed, unique |-> unique]

\* MutableInterface::addDynamicSprite(identifier, textureName, ...): the sprite is
\* constructed (addTexture, then switchToNextTexture(0), which loads the texture),
\* and moved into the vector. An unknown texture throws before anything changes.
AddTexturedSprite(identifier, textureName) ==
    /\ status = "running"
    /\ NoCallback
    /\ UNCHANGED <<lastSlider, switchVars, mqbVars, entryVars, lastSwapped, registryVars>>
    /\ IF identifier \in DOMAIN m_dynamicSprites THEN UNCHANGED <<state, textureVars>>
       ELSE /\ Len(m_sprites) < MaxSprites
            /\ IF build = "debug" /\ m_lockState THEN Abort /\ UNCHANGED textureVars
               ELSE LET a == AddedTexture(TexturedWrapper(identifier), textureName,
                                          s_allUniqueTextures)
                    IN IF a.outcome = "absent" THEN UNCHANGED <<state, textureVars>>
                       ELSE IF a.outcome = "aborted" THEN Abort /\ UNCHANGED textureVars
                       ELSE /\ s_allUniqueTextures' = a.unique
                            /\ s_allTextures' = WithTexture(s_allTextures,
                                                            s_accessToTextures[textureName],
                                                            "texture")
                            /\ m_sprites' = Append(m_sprites, a.sprite)
                            /\ m_dynamicSprites' = MapPut(m_dynamicSprites, identifier, Len(m_sprites))
                            /\ m_indexesForEachDynamicSprites' =
                                   MapPut(m_indexesForEachDynamicSprites, Len(m_sprites), identifier)
                            /\ UNCHANGED <<build, status, m_lockState, textVars, interactiveVars,
                                           s_accessToTextures>>

\* getDynamicSprite(identifier)->addTexture(name) on a sprite that is there.
AddTexture(identifier, name) ==
    /\ status = "running"
    /\ NoCallback
    /\ UNCHANGED <<lastSlider, switchVars, mqbVars, entryVars, lastSwapped, registryVars>>
    /\ identifier \in DOMAIN m_dynamicSprites
    /\ Len(getDynamicSprite(identifier).m_uniqueTextures) < MaxSpriteTextures
    /\ LET a == AddedTexture(getDynamicSprite(identifier), name, s_allUniqueTextures)
       IN IF a.outcome = "absent" THEN UNCHANGED <<state, textureVars>>
          ELSE IF a.outcome = "aborted" THEN Abort /\ UNCHANGED textureVars
          ELSE /\ m_sprites' = [m_sprites EXCEPT ![m_dynamicSprites[identifier] + 1] = a.sprite]
               /\ s_allUniqueTextures' = a.unique
               /\ UNCHANGED <<build, status, m_lockState, textVars, m_dynamicSprites,
                              m_indexesForEachDynamicSprites, interactiveVars,
                              s_allTextures, s_accessToTextures>>

RECURSIVE DestroyedKeepsAccess(_, _), Destroyed(_, _)

\* A destructor that leaves the entry of the name map.
DestroyedKeepsAccess(names, store) ==
    IF names = <<>> \/ store.ub THEN store
    ELSE IF names[1] \notin DOMAIN store.access THEN [store EXCEPT !.ub = TRUE]
    ELSE LET h == store.access[names[1]]
         IN DestroyedKeepsAccess(Tail(names),
                [all |-> WithoutHolder(store.all, h),
                 access |-> store.access,
                 unique |-> MapErase(store.unique, h),
                 ub |-> FALSE])

\* SpriteWrapper::~SpriteWrapper over the names of m_uniqueTextures: each is looked
\* up in the name map and erased from the reserved set, the list and the name map.
\* A name that the map has lost is looked up to end(), which is dereferenced (ub).
Destroyed(names, store) ==
    IF names = <<>> \/ store.ub THEN store
    ELSE IF names[1] \notin DOMAIN store.access THEN [store EXCEPT !.ub = TRUE]
    ELSE LET h == store.access[names[1]]
         IN Destroyed(Tail(names),
                [all |-> WithoutHolder(store.all, h),
                 access |-> MapErase(store.access, names[1]),
                 unique |-> MapErase(store.unique, h),
                 ub |-> FALSE])

\* MutableInterface::removeDynamicSprite on an interface of textured sprites: the
\* sprite is swapped into the last slot and pop_back runs its destructor.
RemoveTexturedSprite(identifier) ==
    /\ status = "running"
    /\ NoCallback
    /\ UNCHANGED <<lastSlider, switchVars, mqbVars, entryVars, lastSwapped, registryVars>>
    /\ IF build = "debug" /\ m_lockState THEN Abort /\ UNCHANGED textureVars
       ELSE IF identifier \notin DOMAIN m_dynamicSprites THEN UNCHANGED <<state, textureVars>>
       ELSE LET base == BaseRemoveDynamicSprite(identifier, NullWrapper)
                store == Destroyed(getDynamicSprite(identifier).m_uniqueTextures,
                                   [all |-> s_allTextures, access |-> s_accessToTextures,
                                    unique |-> s_allUniqueTextures, ub |-> FALSE])
            IN IF store.ub
               THEN /\ status' \in {"aborted", "ub"}
                    /\ UNCHANGED <<build, m_lockState, textVars, spriteVars, interactiveVars,
                                   textureVars>>
               ELSE /\ m_sprites' = base.vector
                    /\ m_dynamicSprites' = base.identifierMap
                    /\ m_indexesForEachDynamicSprites' = base.indexMap
                    /\ s_allTextures' = store.all
                    /\ s_accessToTextures' = store.access
                    /\ s_allUniqueTextures' = store.unique
                    /\ UNCHANGED <<build, status, m_lockState, textVars, interactiveVars>>

----------------------------------------------------------------------------
\* SpriteWrapper: the texture vector of one sprite.

RECURSIVE TwoToThe(_, _)
\* 2^bits modulo n.
TwoToThe(bits, n) == IF bits = 0 THEN 1 % n ELSE (2 * TwoToThe(bits - 1, n)) % n

\* static_cast<size_t>(totalIndex) % textureSize: a negative long long converts to
\* 2^64 + totalIndex.
UnsignedRemainder(totalIndex, textureSize) ==
    IF totalIndex >= 0 THEN totalIndex % textureSize
    ELSE (TwoToThe(IndexBits, textureSize) + (totalIndex % textureSize)) % textureSize

\* The index switchToNextTexture computes: the operands of both % are converted to
\* size_t, the type of textureSize.
NextTextureIndex(curTextureIndex, offset, textureSize) ==
    LET totalIndex == curTextureIndex + offset
    IN (UnsignedRemainder(totalIndex, textureSize) + textureSize) % textureSize

\* The sprite, alone: no interface and no store is touched.
SpriteCall ==
    /\ status = "running"
    /\ NoCallback
    /\ UNCHANGED <<state, lastSlider, textureVars, mqbVars, entryVars, lastSwapped, registryVars>>

\* SpriteWrapper::addTexture, as to the texture vector: one more entry.
PushTexture ==
    /\ SpriteCall
    /\ Len(m_textures) < MaxTextureCount
    /\ m_textures' = Append(m_textures, "t")
    /\ UNCHANGED <<m_curTextureIndex, previousTextureIndex, indexOffset>>

\* SpriteWrapper::switchToNextTexture(offset)
SwitchToNextTexture(offset) ==
    /\ SpriteCall
    /\ m_curTextureIndex' = NextTextureIndex(m_curTextureIndex, offset, Len(m_textures))
    /\ previousTextureIndex' = m_curTextureIndex
    /\ indexOffset' = offset
    /\ UNCHANGED m_textures

----------------------------------------------------------------------------
\* Compound elements: the multiple-question box.

\* A call on the boxes of the multiple-question box; the registries are not changed.
MqbCall ==
    /\ status = "running"
    /\ NoCallback
    /\ UNCHANGED <<m_lockState, textVars, spriteVars, interactiveVars, build,
                   lastSlider, textureVars, switchVars, entryVars, lastSwapped, registryVars>>

\* box->switchToNextTexture() on a box, which has the unchecked and the checked texture.
Switched(boxes, index) ==
    [boxes EXCEPT ![index + 1] = NextTextureIndex(@, 1, 2)]

\* addMQB: numberOfBoxes box sprites, the default one switched to the checked
\* texture; the flags are those the application will pass to checkBox.
AddMQB(numberOfBoxes, defaultCheckedBox, multiple, atLeast) ==
    /\ MqbCall
    /\ mqbBoxes = <<>>
    /\ IF build = "debug" /\ ~(numberOfBoxes > 0 /\ defaultCheckedBox <= numberOfBoxes)
       THEN status' = "aborted" /\ UNCHANGED mqbVars
       ELSE /\ mqbBoxes' = [i \in 1..numberOfBoxes |->
                                IF i - 1 = defaultCheckedBox THEN NextTextureIndex(0, 1, 2) ELSE 0]
            /\ multipleChoices' = multiple
            /\ atLeastOne' = atLeast
            /\ checkedBoxes' = <<>>
            /\ lastCheck' = -1
            /\ UNCHANGED status

\* getDynamicSprite(box)->switchToNextTexture() called by the application.
SwitchBox(index) ==
    /\ MqbCall
    /\ index < Len(mqbBoxes)
    /\ mqbBoxes' = Switched(mqbBoxes, index)
    /\ lastCheck' = -1
    /\ UNCHANGED <<status, multipleChoices, atLeastOne, checkedBoxes>>

\* The indexes of the boxes whose current texture is the checked one, in order.
CheckedOf(boxes) ==
    SelectSeq([i \in 1..Len(boxes) |-> i - 1], LAMBDA i : boxes[i + 1] = 1)

\* A checkBox that never finds that nothing is to change.
KeptNever(checked, check) == FALSE

\* checkBox returns at once: one box must stay checked and the box to switch is the
\* only one that is.
Kept(checked, check) ==
    atLeastOne /\ Len(checked) = 1 /\ checked[1] = check

\* A checkBox that never unchecks the box that was checked.
ResetFirstNever(checked) == FALSE

\* One box at most may be checked and one is: it is unchecked first.
ResetFirst(checked) ==
    ~multipleChoices /\ Len(checked) = 1

\* A checkBox that keeps, in the vector it returns, the box it has unchecked first.
CheckedKeepsReset(boxes, check) ==
    LET checked == CheckedOf(boxes)
        wasChecked == InSeq(check, checked)
        boxes1 == IF ResetFirst(checked) THEN Switched(boxes, checked[1]) ELSE boxes
        removed == SelectSeq(checked, LAMBDA i : i # check)
    IN IF Kept(checked, check) THEN [boxes |-> boxes, checkedBoxes |-> checked]
       ELSE IF ~multipleChoices /\ ~atLeastOne /\ wasChecked
       THEN [boxes |-> boxes1, checkedBoxes |-> checked]
       ELSE [boxes |-> Switched(boxes1, check),
             checkedBoxes |-> IF wasChecked THEN removed ELSE Append(removed, check)]

\* checkBox past its assertions: the boxes it leaves and the vector it returns.
Checked(boxes, check) ==
    LET checked == CheckedOf(boxes)
        wasChecked == InSeq(check, checked)
        boxes1 == IF ResetFirst(checked) THEN Switched(boxes, checked[1]) ELSE boxes
        checked1 == IF ResetFirst(checked) THEN <<>> ELSE checked
        removed == SelectSeq(checked1, LAMBDA i : i # check)
    IN IF Kept(checked, check) THEN [boxes |-> boxes, checkedBoxes |-> checked]
       ELSE IF ~multipleChoices /\ ~atLeastOne /\ wasChecked
       THEN [boxes |-> boxes1, checkedBoxes |-> checked1]
       ELSE [boxes |-> Switched(boxes1, check),
             checkedBoxes |-> IF wasChecked THEN removed ELSE Append(removed, check)]

\* checkBox(gui, {identifier, check}, multipleChoices, atLeastOne). Without boxes it
\* throws; a failed assertion aborts a debug build; in a release build an index out
\* of range reaches boxes[check].
CheckBox(check) ==
    /\ MqbCall
    /\ LET checked == CheckedOf(mqbBoxes)
           asserted == \/ ~(check > -1 /\ check < Len(mqbBoxes))
                       \/ ~(Len(mqbBoxes) # 1 \/ ~atLeastOne)
                       \/ ~(~atLeastOne \/ checked # <<>>)
                       \/ ~(multipleChoices \/ Len(checked) <= 1)
       IN IF mqbBoxes = <<>> THEN UNCHANGED <<status, mqbVars>>
          ELSE IF build = "debug" /\ asserted THEN status' = "aborted" /\ UNCHANGED mqbVars
          ELSE IF ~(check > -1 /\ check < Len(mqbBoxes))
          THEN status' \in {"aborted", "ub"} /\ UNCHANGED mqbVars
          ELSE /\ mqbBoxes' = Checked(mqbBoxes, check).boxes
               /\ checkedBoxes' = Checked(mqbBoxes, check).checkedBoxes
               /\ lastCheck' = check
               /\ UNCHANGED <<status, multipleChoices, atLeastOne>>

----------------------------------------------------------------------------
\* Writing in a dynamic text.

exitWritingCharacter == 13
backspaceCharacter == 8
emptinessWritingCharacters == <<48>>

\* The characters entered: backspace, the exit character, a letter, and a letter that
\* does not fit a char.
Characters == {backspaceCharacter, exitWritingCharacter, 97, 321}

\* The writing functions: one that leaves the text as it is and one that refuses the
\* character with text.pop_back().
WritableFunctions == {"keep", "reject"}

\* The contents given to a text that is added.
Contents == {<<>>, <<97>>}

\* setWritingText first gives the text that was written, if it shows nothing, the
\* emptiness characters.
Emptied(contents) ==
    IF m_writingTextIdentifier \in DOMAIN m_dynamicTexts /\ contents[m_writingTextIdentifier] = <<>>
    THEN [contents EXCEPT ![m_writingTextIdentifier] = emptinessWritingCharacters]
    ELSE contents

\* A step that is not a textEntered call.
NotEntered ==
    /\ lastCharacter' = -1
    /\ invocations' = 0
    /\ invokedWith' = <<>>
    /\ UNCHANGED <<lastSlider, textureVars, switchVars, mqbVars, lastSwapped, registryVars>>

\* addDynamicText with the content of the text.
AddDynamicTextWith(identifier, text) ==
    /\ AddDynamicText(identifier)
    /\ content' = IF identifier \in DOMAIN m_dynamicTexts THEN content
                  ELSE [content EXCEPT ![identifier] = text]
    /\ UNCHANGED m_writingFunction
    /\ NotEntered

\* removeDynamicText, which disables the writing if the text is the one written.
RemoveWrittenText(identifier) ==
    /\ RemoveDynamicText(identifier)
    /\ content' = IF identifier \in DOMAIN m_dynamicTexts
                  THEN [content EXCEPT ![identifier] = <<>>] ELSE content
    /\ m_writingFunction' = IF identifier \in DOMAIN m_dynamicTexts /\ m_writingTextIdentifier = identifier
                            THEN nullptr ELSE m_writingFunction
    /\ NotEntered

\* setWritingText(identifier, function).
SetWritingTextWith(identifier, function) ==
    /\ SetWritingText(identifier)
    /\ content' = Emptied(content)
    /\ m_writingFunction' = IF identifier = "" THEN nullptr ELSE function
    /\ NotEntered

\* text.push_back(character) converts the char32_t to a char.
Narrowed(character) == character % (2 ^ CharBits)

\* text.pop_back()
PopBack(text) == SubSeq(text, 1, Len(text) - 1)

\* The text that the writing function leaves.
Written(function, text) ==
    IF function = "reject" THEN PopBack(text) ELSE text

\* textEntered past the exit character: the text set as content, and the invocation
\* of the writing function.
Enters(text, character) ==
    LET pushed == Append(text, Narrowed(character))
    IN IF character = backspaceCharacter
       THEN [text |-> IF text # <<>> THEN PopBack(text) ELSE text,
             invocations |-> 0, invokedWith |-> <<>>]
       ELSE IF m_writingFunction # nullptr
       THEN [text |-> Written(m_writingFunction, pushed), invocations |-> 1, invokedWith |-> pushed]
       ELSE [text |-> pushed, invocations |-> 0, invokedWith |-> <<>>]

\* InteractiveInterface::textEntered(activeGUI, character) on this interface.
TextEntered(character) ==
    /\ status = "running"
    /\ NoCallback
    /\ lastCharacter' = character
    /\ UNCHANGED <<lastSlider, textureVars, switchVars, mqbVars, lastSwapped, registryVars>>
    /\ UNCHANGED <<build, m_lockState, textVars, m_dynamicSprites,
                   m_indexesForEachDynamicSprites, m_nbOfButtonTexts, m_nbOfButtonSprites,
                   m_allButtons, s_hoveredItem, otherLive, interactiveTexts, interactiveSprites>>
    /\ IF m_writingTextIdentifier = ""
       THEN /\ invocations' = 0
            /\ invokedWith' = <<>>
            /\ UNCHANGED <<status, m_sprites, m_writingTextIdentifier, m_writingFunction, content>>
       ELSE IF character = exitWritingCharacter
       THEN /\ content' = Emptied(content)
            /\ m_sprites' = WritingDisabled
            /\ m_writingTextIdentifier' = ""
            /\ m_writingFunction' = nullptr
            /\ invocations' = 0
            /\ invokedWith' = <<>>
            /\ UNCHANGED status
       ELSE IF getDynamicText(m_writingTextIdentifier) = NullWrapper
       THEN /\ status' \in IF build = "debug" THEN {"aborted"} ELSE {"aborted", "ub"}
            /\ invocations' = 0
            /\ invokedWith' = <<>>
            /\ UNCHANGED <<m_sprites, m_writingTextIdentifier, m_writingFunction, content>>
       ELSE LET entered == Enters(content[m_writingTextIdentifier], character)
            IN /\ character = backspaceCharacter \/ Len(content[m_writingTextIdentifier]) < MaxContent
               /\ content' = [content EXCEPT ![m_writingTextIdentifier] = entered.text]
               /\ invocations' = entered.invocations
               /\ invokedWith' = entered.invokedWith
               /\ UNCHANGED <<status, m_sprites, m_writingTextIdentifier, m_writingFunction>>

----------------------------------------------------------------------------
\* swapElement called by a class derived from MutableInterface.

\* swapElement(index1, index2, vector, identifierMap, indexMap) with its assertions:
\* what the call does to the status and to the three containers.
SwapElementCall(index1, index2, vector, identifierMap, indexMap, junk) ==
    LET outcome == SwapOutcome(index1, index2, Len(vector), m_lockState)
        same == [vector |-> vector, identifierMap |-> identifierMap, indexMap |-> indexMap]
    IN [status |-> IF outcome = "aborted" THEN {"aborted"}
                   ELSE IF outcome = "ub" THEN {"aborted", "ub"}
                   ELSE {status},
        containers |-> IF outcome = "aborted" THEN same
                       ELSE SwapElement(index1, index2, vector, identifierMap, indexMap, junk)]

\* swapElement(index1, index2, m_texts, m_dynamicTexts, m_indexesForEachDynamicTexts)
SwapTexts(index1, index2) ==
    /\ status = "running"
    /\ NoCallback
    /\ \E junk \in GarbageRecords :
          LET call == SwapElementCall(index1, index2, m_texts, m_dynamicTexts,
                                      m_indexesForEachDynamicTexts, junk)
          IN /\ status' \in call.status
             /\ m_texts' = IF status' = "aborted" THEN m_texts ELSE call.containers.vector
             /\ m_dynamicTexts' = IF status' = "aborted" THEN m_dynamicTexts
                                  ELSE call.containers.identifierMap
             /\ m_indexesForEachDynamicTexts' = IF status' = "aborted" THEN m_indexesForEachDynamicTexts
                                                ELSE call.containers.indexMap
    /\ lastSwapped' = <<"texts", index1, index2>>
    /\ UNCHANGED <<build, m_lockState, spriteVars, interactiveVars>>
    /\ UNCHANGED <<lastSlider, textureVars, switchVars, mqbVars, entryVars, registryVars>>

----------------------------------------------------------------------------
\* BasicInterface: the collection of all interfaces.

\* A constructor, an assignment or a destructor of a BasicInterface; the widgets of
\* the interface under study are not changed.
RegistryCall ==
    /\ status = "running"
    /\ NoCallback
    /\ UNCHANGED <<build, m_lockState, textVars, spriteVars, interactiveVars>>
    /\ UNCHANGED <<lastSlider, textureVars, switchVars, mqbVars, entryVars, lastSwapped>>

\* s_allInterfaces.find(window) and the find_if in its vector reach an entry.
Found(registry, window, interface) ==
    window \in DOMAIN registry /\ InSeq(interface, registry[window])

\* *it = replacement, for the first entry that is the interface.
Replaced(registry, window, interface, replacement) ==
    LET first == CHOOSE k \in 1..Len(registry[window]) :
                     /\ registry[window][k] = interface
                     /\ \A l \in 1..(k - 1) : registry[window][l] # interface
    IN [registry EXCEPT ![window][first] = replacement]

\* vector.erase(it), and the key erased with its last interface.
Erased(registry, window, interface) ==
    LET first == CHOOSE k \in 1..Len(registry[window]) :
                     /\ registry[window][k] = interface
                     /\ \A l \in 1..(k - 1) : registry[window][l] # interface
        rest == [k \in 1..(Len(registry[window]) - 1) |->
                     IF k < first THEN registry[window][k] ELSE registry[window][k + 1]]
    IN IF rest = <<>> THEN MapErase(registry, window) ELSE MapPut(registry, window, rest)

\* An iterator that is end() is dereferenced: the process crashes, or goes on in a
\* state that nothing describes.
EndDereferenced ==
    /\ status' \in {"aborted", "ub"}
    /\ UNCHANGED registryVars

\* BasicInterface(window, relativeScalingDefinition)
Construct(interface, window) ==
    /\ RegistryCall
    /\ interface \notin liveInterfaces
    /\ s_allInterfaces' = MapPut(s_allInterfaces, window,
                                 IF window \in DOMAIN s_allInterfaces
                                 THEN Append(s_allInterfaces[window], interface)
                                 ELSE <<interface>>)
    /\ m_window' = [m_window EXCEPT ![interface] = window]
    /\ liveInterfaces' = liveInterfaces \cup {interface}
    /\ UNCHANGED status

\* BasicInterface()
DefaultConstruct(interface) ==
    /\ RegistryCall
    /\ interface \notin liveInterfaces
    /\ m_window' = [m_window EXCEPT ![interface] = nullptr]
    /\ liveInterfaces' = liveInterfaces \cup {interface}
    /\ UNCHANGED <<status, s_allInterfaces>>

\* BasicInterface(BasicInterface&& other)
MoveConstruct(interface, other) ==
    /\ RegistryCall
    /\ interface \notin liveInterfaces
    /\ other \in liveInterfaces
    /\ IF ~Found(s_allInterfaces, m_window[other], other) THEN EndDereferenced
       ELSE /\ s_allInterfaces' = Replaced(s_allInterfaces, m_window[other], other, interface)
            /\ m_window' = [m_window EXCEPT ![interface] = m_window[other], ![other] = nullptr]
            /\ liveInterfaces' = liveInterfaces \cup {interface}
            /\ UNCHANGED status

\* BasicInterface::operator=(BasicInterface&& other)
MoveAssign(interface, other) ==
    /\ RegistryCall
    /\ interface \in liveInterfaces
    /\ other \in liveInterfaces
    /\ interface # other
    /\ IF m_window[other] = m_window[interface]
       THEN /\ m_window' = [m_window EXCEPT ![interface] = m_window[other], ![other] = nullptr]
            /\ UNCHANGED <<status, s_allInterfaces, liveInterfaces>>
       ELSE IF ~Found(s_allInterfaces, m_window[other], other) THEN EndDereferenced
       ELSE LET registry == Replaced(s_allInterfaces, m_window[other], other, interface)
            IN IF ~Found(registry, m_window[interface], interface) THEN EndDereferenced
               ELSE /\ s_allInterfaces' = Replaced(registry, m_window[interface], interface, other)
                    /\ m_window' = [m_window EXCEPT ![interface] = m_window[other],
                                                    ![other] = nullptr]
                    /\ UNCHANGED <<status, liveInterfaces>>

\* BasicInterface::~BasicInterface
Destruct(interface) ==
    /\ RegistryCall
    /\ interface \in liveInterfaces
    /\ IF ~Found(s_allInterfaces, m_window[interface], interface) THEN EndDereferenced
       ELSE /\ s_allInterfaces' = Erased(s_allInterfaces, m_window[interface], interface)
            /\ m_window' = [m_window EXCEPT ![interface] = nullptr]
            /\ liveInterfaces' = liveInterfaces \ {interface}
            /\ UNCHANGED status

----------------------------------------------------------------------------
\* An InteractiveInterface under any sequence of additions, promotions, removals
\* and the lock.
Next ==
    \/ UNCHANGED compoundVars /\ AddText
    \/ UNCHANGED compoundVars /\ AddSprite
    \/ UNCHANGED compoundVars /\ \E id \in Ids : AddDynamicText(id)
    \/ UNCHANGED compoundVars /\ \E id \in Ids : AddDynamicSprite(id)
    \/ UNCHANGED compoundVars /\ \E id \in Ids : RemoveDynamicText(id)
    \/ UNCHANGED compoundVars /\ \E id \in Ids : RemoveDynamicSprite(id)
    \/ UNCHANGED compoundVars /\ \E id \in Ids, function \in Funcs \cup {nullptr} : AddInteractive(id, function)
    \/ UNCHANGED compoundVars /\ LockInterface

Spec == Init /\ [][Next]_vars

\* An unlocked InteractiveInterface of dynamic widgets under the mouse events, beside
\* another interactive interface and one that is not interactive.
NextHover ==
    \/ UNCHANGED compoundVars /\ \E id \in Ids : AddDynamicText(id)
    \/ UNCHANGED compoundVars /\ \E id \in Ids : AddDynamicSprite(id)
    \/ UNCHANGED compoundVars /\ \E id \in Ids : RemoveDynamicText(id)
    \/ UNCHANGED compoundVars /\ \E id \in Ids : RemoveDynamicSprite(id)
    \/ UNCHANGED compoundVars /\ \E id \in Ids, function \in Funcs \cup {nullptr} : AddInteractive(id, function)
    \/ UNCHANGED compoundVars /\ \E cursorPos \in Cursors : EventUpdateHovered(cursorPos)
    \/ UNCHANGED compoundVars /\ EventPressed
    \/ UNCHANGED compoundVars /\ EventUpdateHoveredOther
    \/ UNCHANGED compoundVars /\ \E gui \in {Other, Basic} : EventPressedOther(gui)

SpecHover == Init /\ [][NextHover]_vars

\* An unlocked InteractiveInterface whose widgets are shown and hidden while the
\* cursor moves, until it is destroyed; the buttons have no callback.
NextCursor ==
    \/ UNCHANGED compoundVars /\ \E id \in Ids : AddDynamicText(id)
    \/ UNCHANGED compoundVars /\ \E id \in Ids : AddDynamicSprite(id)
    \/ UNCHANGED compoundVars /\ \E id \in Ids : RemoveDynamicText(id)
    \/ UNCHANGED compoundVars /\ \E id \in Ids : RemoveDynamicSprite(id)
    \/ UNCHANGED compoundVars /\ \E id \in Ids : AddInteractive(id, nullptr)
    \/ UNCHANGED compoundVars /\ \E cursorPos \in Cursors : EventUpdateHovered(cursorPos)
    \/ UNCHANGED compoundVars /\ EventUpdateHoveredOther
    \/ UNCHANGED compoundVars /\ EventUpdateHoveredBasic
    \/ UNCHANGED compoundVars /\ \E id \in Ids, hide \in BOOLEAN : SetHideText(id, hide)
    \/ UNCHANGED compoundVars /\ \E id \in Ids, hide \in BOOLEAN : SetHideSprite(id, hide)
    \/ UNCHANGED compoundVars /\ Destroy
    \/ UNCHANGED compoundVars /\ DestroyOther

SpecCursor == Init /\ [][NextCursor]_vars

\* An unlocked InteractiveInterface with a writing text.
NextWriting ==
    \/ UNCHANGED compoundVars /\ \E id \in Ids : AddDynamicText(id)
    \/ UNCHANGED compoundVars /\ \E id \in Ids : AddDynamicSprite(id)
    \/ UNCHANGED compoundVars /\ \E id \in Ids : RemoveDynamicText(id)
    \/ UNCHANGED compoundVars /\ \E id \in Ids : RemoveDynamicSprite(id)
    \/ UNCHANGED compoundVars /\ \E id \in Ids : AddInteractive(id, nullptr)
    \/ UNCHANGED compoundVars /\ \E cursorPos \in Cursors : EventUpdateHovered(cursorPos)
    \/ UNCHANGED compoundVars /\ \E id \in Ids \cup {""} : SetWritingText(id)

SpecWriting == Init /\ [][NextWriting]_vars

\* An InteractiveInterface of dynamic widgets that is populated, hovered, pressed
\* and locked.
NextLock ==
    \/ UNCHANGED compoundVars /\ \E id \in Ids : AddDynamicText(id)
    \/ UNCHANGED compoundVars /\ \E id \in Ids : AddDynamicSprite(id)
    \/ UNCHANGED compoundVars /\ \E id \in Ids : RemoveDynamicText(id)
    \/ UNCHANGED compoundVars /\ \E id \in Ids : RemoveDynamicSprite(id)
    \/ UNCHANGED compoundVars /\ \E id \in Ids, function \in Funcs \cup {nullptr} : AddInteractive(id, function)
    \/ UNCHANGED compoundVars /\ \E cursorPos \in Cursors : EventUpdateHovered(cursorPos)
    \/ UNCHANGED compoundVars /\ EventPressed
    \/ UNCHANGED compoundVars /\ LockInterface

SpecLock == Init /\ [][NextLock]_vars

\* A MutableInterface under any sequence of calls.
NextMutable ==
    \/ UNCHANGED compoundVars /\ AddText
    \/ UNCHANGED compoundVars /\ AddSprite
    \/ UNCHANGED compoundVars /\ \E id \in Ids : AddDynamicText(id)
    \/ UNCHANGED compoundVars /\ \E id \in Ids : AddDynamicSprite(id)
    \/ UNCHANGED compoundVars /\ \E id \in Ids : MutableRemoveDynamicText(id)
    \/ UNCHANGED compoundVars /\ \E id \in Ids : MutableRemoveDynamicSprite(id)

SpecMutable == InitMutable /\ [][NextMutable]_vars

\* The identifiers of a slider's widgets.
SliderIds == Ids \cup {sliderIdPrefix \o id : id \in Ids}

\* An InteractiveInterface to which sliders are added, and whose widgets are
\* removed one by one.
NextSlider ==
    \/ UNCHANGED <<textureVars, switchVars, mqbVars, entryVars, lastSwapped, registryVars>> /\ \E id \in Ids : AddSlider(id)
    \/ lastSlider' = "" /\ UNCHANGED <<textureVars, switchVars, mqbVars, entryVars, lastSwapped, registryVars>> /\ \E id \in Ids : AddDynamicText(id)
    \/ lastSlider' = "" /\ UNCHANGED <<textureVars, switchVars, mqbVars, entryVars, lastSwapped, registryVars>> /\ \E id \in Ids : RemoveDynamicText(id)
    \/ lastSlider' = "" /\ UNCHANGED <<textureVars, switchVars, mqbVars, entryVars, lastSwapped, registryVars>> /\ \E id \in SliderIds : RemoveDynamicSprite(id)
    \/ lastSlider' = "" /\ UNCHANGED <<textureVars, switchVars, mqbVars, entryVars, lastSwapped, registryVars>> /\ LockInterface

SpecSlider == Init /\ [][NextSlider]_vars

\* The calls on the texture store.
NextStore ==
    \/ \E name \in TextureNames, shared \in {"Yes", "No"}, loadImmediately \in BOOLEAN :
           CreateTexture(name, "file", shared, loadImmediately)
    \/ \E name \in TextureNames, shared \in {"Yes", "No"} : CreateTextureFromTexture(name, shared)
    \/ \E name \in TextureNames : UnloadTexture(name)
    \/ \E name \in TextureNames : RemoveTexture(name)

SpecStore == InitMutable /\ [][NextStore]_vars

\* A MutableInterface of textured sprites beside the calls on the texture store.
NextTexture ==
    \/ \E name \in TextureNames, shared \in {"Yes", "No"} :
           CreateTexture(name, "file", shared, FALSE)
    \/ \E name \in TextureNames : UnloadTexture(name)
    \/ \E name \in TextureNames : RemoveTexture(name)
    \/ \E id \in Ids, name \in TextureNames : AddTexturedSprite(id, name)
    \/ \E id \in Ids, name \in TextureNames : AddTexture(id, name)
    \/ \E id \in Ids : RemoveTexturedSprite(id)

SpecTexture == InitMutable /\ [][NextTexture]_vars

\* One sprite whose texture vector grows and whose texture is switched.
NextSwitch ==
    \/ PushTexture
    \/ \E offset \in -MaxOffset..MaxOffset : SwitchToNextTexture(offset)

SpecSwitch == InitMutable /\ [][NextSwitch]_vars

\* One multiple-question box that is added, whose boxes the application switches, and
\* on which checkBox is called.
NextCheckBox ==
    \/ \E numberOfBoxes \in 1..MaxBoxes, defaultCheckedBox \in -1..MaxBoxes,
          multiple \in BOOLEAN, atLeast \in BOOLEAN :
           AddMQB(numberOfBoxes, defaultCheckedBox, multiple, atLeast)
    \/ \E index \in 0..(MaxBoxes - 1) : SwitchBox(index)
    \/ \E check \in -1..MaxBoxes : CheckBox(check)

SpecCheckBox == InitMutable /\ [][NextCheckBox]_vars

\* An unlocked InteractiveInterface whose texts are added, removed, written in.
NextEntry ==
    \/ \E id \in Ids, text \in Contents : AddDynamicTextWith(id, text)
    \/ \E id \in Ids : RemoveWrittenText(id)
    \/ \E id \in Ids \cup {""}, function \in WritableFunctions \cup {nullptr} :
           SetWritingTextWith(id, function)
    \/ \E character \in Characters : TextEntered(character)

SpecEntry == Init /\ [][NextEntry]_vars

\* Swaps of no call before.
NotSwapped == lastSwapped' = <<>> /\ UNCHANGED <<lastSlider, textureVars, switchVars, mqbVars, entryVars, registryVars>>

\* A MutableInterface of fixed and dynamic texts whose derived class swaps them.
NextSwap ==
    \/ NotSwapped /\ AddText
    \/ NotSwapped /\ \E id \in Ids : AddDynamicText(id)
    \/ NotSwapped /\ \E id \in Ids : MutableRemoveDynamicText(id)
    \/ \E index1 \in 0..(MaxTexts - 1), index2 \in 0..(MaxTexts - 1) : SwapTexts(index1, index2)

SpecSwap == InitMutable /\ [][NextSwap]_vars

\* The interfaces of a process that are constructed, moved and destroyed.
NextRegistry ==
    \/ \E interface \in Interfaces, window \in Windows : Construct(interface, window)
    \/ \E interface \in Interfaces : DefaultConstruct(interface)
    \/ \E interface \in Interfaces, other \in Interfaces : MoveConstruct(interface, other)
    \/ \E interface \in Interfaces, other \in Interfaces : MoveAssign(interface, other)
    \/ \E interface \in Interfaces : Destruct(interface)

SpecRegistry == InitMutable /\ [][NextRegistry]_vars

----------------------------------------------------------------------------
\* Properties.

\* Every identifier of the map has a slot in range that holds the record added
\* under it, and every record of a dynamic widget is the slot of exactly one entry.
InSync(vector, identifierMap) ==
    /\ \A id \in DOMAIN identifierMap :
           /\ identifierMap[id] < Len(vector)
           /\ vector[identifierMap[id] + 1].owner = id
    /\ \A k \in 1..Len(vector) :
           vector[k].owner # Static =>
               Cardinality({id \in DOMAIN identifierMap : identifierMap[id] = k - 1}) = 1

\* C1: on an unlocked InteractiveInterface, after each addDynamic*, addInteractive or
\* removeDynamic* call that completes, every live dynamic widget has exactly one
\* identifier-map entry, whose slot is in range and holds the widget's own record,
\* and the identifier a remove call removed looks up as null.
C1_MapInSync ==
    [][(~m_lockState /\ status' # "aborted") =>
          /\ InSync(m_texts', m_dynamicTexts')
          /\ InSync(m_sprites', m_dynamicSprites')
          /\ \A id \in Ids :
                 /\ RemoveDynamicText(id) => id \notin DOMAIN m_dynamicTexts'
                 /\ RemoveDynamicSprite(id) => id \notin DOMAIN m_dynamicSprites']_vars

\* The state a swap-remove of the record in slot index leaves: one slot less, the
\* former last record in slot index, every other slot as it was.
SwapRemoved(vector, identifierMap, vectorAfter, identifierMapAfter, identifier) ==
    LET index == identifierMap[identifier]
        last == Len(vector) - 1
    IN /\ Len(vectorAfter) = Len(vector) - 1
       /\ identifier \notin DOMAIN identifierMapAfter
       /\ InSync(vectorAfter, identifierMapAfter)
       /\ DOMAIN identifierMapAfter = (DOMAIN identifierMap) \ {identifier}
       /\ \A other \in DOMAIN identifierMapAfter :
              identifierMapAfter[other] # identifierMap[other] => identifierMap[other] = last
       /\ \A k \in 1..Len(vectorAfter) :
              vectorAfter[k] = IF k = index + 1 THEN vector[last + 1] ELSE vector[k]

\* C2: on an unlocked MutableInterface with untracked and dynamic widgets mixed, a
\* remove of a present identifier shrinks that category's storage by exactly one,
\* makes the lookup of the identifier return null, and leaves every other identifier
\* mapped to the slot of its own record; only the former last record changes slot.
C2_SwapRemove ==
    [][\A id \in Ids :
          /\ (id \in DOMAIN m_dynamicTexts /\ MutableRemoveDynamicText(id)) =>
                 /\ SwapRemoved(m_texts, m_dynamicTexts, m_texts', m_dynamicTexts', id)
                 /\ getDynamicText(id)' = NullWrapper
          /\ (id \in DOMAIN m_dynamicSprites /\ MutableRemoveDynamicSprite(id)) =>
                 /\ SwapRemoved(m_sprites, m_dynamicSprites, m_sprites', m_dynamicSprites', id)
                 /\ getDynamicSprite(id)' = NullWrapper]_vars

\* A swap-remove has moved an untracked last record into the slot of a removed
\* dynamic text, beside a dynamic text that kept its slot.
C2_Witness ==
    /\ status = "running"
    /\ Len(m_texts) = 2
    /\ m_texts[1].owner = Static
    /\ m_dynamicTexts = MapPut(EmptyMap, "b", 1)
    /\ m_indexesForEachDynamicTexts = MapPut(EmptyMap, 1, "b")
    /\ Len(m_sprites) = 2
    /\ m_dynamicSprites = MapPut(EmptyMap, "a", 0)

\* Slots [0, nb) hold exactly the widgets made interactive and not removed since;
\* no slot from nb on holds one.
Partitioned(vector, nb, interactive) ==
    /\ nb <= Len(vector)
    /\ {vector[k].owner : k \in 1..nb} = interactive
    /\ Cardinality(interactive) = nb
    /\ \A k \in (nb + 1)..Len(vector) : vector[k].owner \notin interactive

\* C3: in every reachable state of an InteractiveInterface, for texts and for sprites
\* independently, the widgets in slots [0, n) are exactly those made interactive by
\* addInteractive and not yet removed, and no widget in a slot >= n is interactive.
C3_Partition ==
    status # "aborted" =>
        /\ Partitioned(m_texts, m_nbOfButtonTexts, interactiveTexts)
        /\ Partitioned(m_sprites, m_nbOfButtonSprites, interactiveSprites)

\* Every slot of the reverse map refers to the identifier-map entry of that value,
\* and an identifier-map entry of that value is the one referred to.
ReverseMapped(identifierMap, indexMap) ==
    \A i \in DOMAIN indexMap :
        /\ indexMap[i] \in DOMAIN identifierMap
        /\ identifierMap[indexMap[i]] = i
        /\ \A id \in DOMAIN identifierMap : identifierMap[id] = i => id = indexMap[i]

\* C4: after every add, remove, promote or swapElement, for every slot i of the
\* reverse index map the identifier-map entry it refers to has value i, and every
\* identifier-map entry with value i is the one reverseMap[i] refers to.
C4_ReverseMap ==
    status # "aborted" =>
        /\ ReverseMapped(m_dynamicTexts, m_indexesForEachDynamicTexts)
        /\ ReverseMapped(m_dynamicSprites, m_indexesForEachDynamicSprites)

\* Promotions have swapped two tracked sprite slots (the writing cursor went from
\* slot 0 to slot 2) and two tracked text slots around an untracked one, and the
\* maps were renamed accordingly.
C4_Witness ==
    /\ status = "running"
    /\ m_dynamicSprites = MapPut(MapPut(MapPut(EmptyMap, "b", 0), "a", 1), writingCursorIdentifier, 2)
    /\ m_nbOfButtonSprites = 1
    /\ m_dynamicTexts = MapPut(MapPut(EmptyMap, "b", 0), "a", 2)
    /\ m_nbOfButtonTexts = 1
    /\ Len(m_texts) = 3

\* A text and a sprite share the identifier, both are interactive and one button
\* entry serves the two.
SharedButton(id) ==
    /\ id \in DOMAIN m_dynamicTexts /\ m_dynamicTexts[id] < m_nbOfButtonTexts
    /\ id \in DOMAIN m_dynamicSprites /\ m_dynamicSprites[id] < m_nbOfButtonSprites
    /\ id \in DOMAIN m_allButtons /\ m_allButtons[id].count = 2

\* Of the text and the sprite of that name, only the text is interactive.
OnlyTextButton(id) ==
    /\ id \in DOMAIN m_dynamicTexts /\ m_dynamicTexts[id] < m_nbOfButtonTexts
    /\ ~(id \in DOMAIN m_dynamicSprites /\ m_dynamicSprites[id] < m_nbOfButtonSprites)

\* Of the text and the sprite of that name, only the sprite is interactive.
OnlySpriteButton(id) ==
    /\ id \in DOMAIN m_dynamicSprites /\ m_dynamicSprites[id] < m_nbOfButtonSprites
    /\ ~(id \in DOMAIN m_dynamicTexts /\ m_dynamicTexts[id] < m_nbOfButtonTexts)

\* C5: when a text and a sprite share identifier x and addInteractive(x, cb) made
\* both interactive, removing either one leaves the button entry of x in place and
\* eventPressed invokes cb when the remaining one is hovered; removing the
\* remaining one too erases the entry, and eventPressed then invokes nothing.
C5_ButtonRefcount ==
    [][\A x \in Ids :
          /\ (SharedButton(x) /\ (RemoveDynamicText(x) \/ RemoveDynamicSprite(x))) =>
                 /\ status' = "running"
                 /\ x \in DOMAIN m_allButtons'
                 /\ m_allButtons'[x].function = m_allButtons[x].function
          /\ ((OnlyTextButton(x) \/ OnlySpriteButton(x)) /\ s_hoveredItem.igui = This
                  /\ s_hoveredItem.identifier = x /\ EventPressed) =>
                 /\ x \in DOMAIN m_allButtons
                 /\ lastInvoked' = m_allButtons[x].function
          /\ ((OnlyTextButton(x) /\ RemoveDynamicText(x))
                  \/ (OnlySpriteButton(x) /\ RemoveDynamicSprite(x))) =>
                 /\ status' = "running"
                 /\ x \notin DOMAIN m_allButtons'
          /\ (x \notin DOMAIN m_allButtons /\ s_hoveredItem.identifier = x /\ EventPressed) =>
                 lastInvoked' = nullptr]_vars

\* C6: in every reachable state, every entry of the button map has a reference
\* count of 1 or 2; none is created or left with count 0.
C6_ButtonCount ==
    \A id \in DOMAIN m_allButtons : m_allButtons[id].count \in {1, 2}

\* C7: addInteractive with an identifier that names neither a dynamic text nor a
\* dynamic sprite is a no-op: storage, identifier maps, both partition boundaries
\* and the button map are unchanged.
C7_AddInteractiveUnknown ==
    [][\A id \in Ids, function \in Funcs \cup {nullptr} :
          (id \notin DOMAIN m_dynamicTexts /\ id \notin DOMAIN m_dynamicSprites
              /\ AddInteractive(id, function)) =>
                 UNCHANGED <<textVars, spriteVars, m_nbOfButtonTexts, m_nbOfButtonSprites,
                             m_allButtons>>]_vars

\* Every existing widget of that name, and at least one, is interactive.
AllInteractive(id) ==
    /\ id \in DOMAIN m_dynamicTexts \/ id \in DOMAIN m_dynamicSprites
    /\ id \in DOMAIN m_dynamicTexts => m_dynamicTexts[id] < m_nbOfButtonTexts
    /\ id \in DOMAIN m_dynamicSprites => m_dynamicSprites[id] < m_nbOfButtonSprites

\* C8: if every existing widget named id is already interactive, a further
\* addInteractive(id, g) changes nothing: slots, partition boundaries, the reference
\* count and the callback registered for id stay as they were.
C8_AddInteractiveAgain ==
    [][\A id \in Ids, function \in Funcs \cup {nullptr} :
          (AllInteractive(id) /\ AddInteractive(id, function)) =>
                 UNCHANGED <<textVars, spriteVars, m_nbOfButtonTexts, m_nbOfButtonSprites,
                             m_allButtons>>]_vars

\* The record of slot i went to slot nb, the record of slot nb to slot i, nb grew
\* by one and every other slot kept its record.
Promoted(vector, identifierMap, nb, vectorAfter, identifierMapAfter, nbAfter, id) ==
    LET i == identifierMap[id]
    IN /\ nbAfter = nb + 1
       /\ identifierMapAfter[id] = nb
       /\ Len(vectorAfter) = Len(vector)
       /\ \A k \in 1..Len(vector) :
              vectorAfter[k] = IF k = nb + 1 THEN vector[i + 1]
                               ELSE IF k = i + 1 THEN vector[nb + 1]
                               ELSE vector[k]

\* C9: addInteractive on a widget of an unlocked interface whose slot i is >= the
\* boundary n of its category moves that widget to slot n and the widget of slot n
\* to slot i, increments n by exactly one and leaves every other slot as it was.
C9_Promotion ==
    [][\A id \in Ids, function \in Funcs \cup {nullptr} :
          (~m_lockState /\ AddInteractive(id, function)) =>
              /\ (id \in DOMAIN m_dynamicTexts /\ m_dynamicTexts[id] >= m_nbOfButtonTexts) =>
                     Promoted(m_texts, m_dynamicTexts, m_nbOfButtonTexts,
                              m_texts', m_dynamicTexts', m_nbOfButtonTexts', id)
              /\ (id \in DOMAIN m_dynamicSprites /\ m_dynamicSprites[id] >= m_nbOfButtonSprites) =>
                     Promoted(m_sprites, m_dynamicSprites, m_nbOfButtonSprites,
                              m_sprites', m_dynamicSprites', m_nbOfButtonSprites', id)]_vars

\* The third of three sprites was promoted: it took slot 0, the boundary became 1
\* and the writing cursor, formerly in slot 0, is in slot 2.
C9_Witness ==
    /\ status = "running"
    /\ ~m_lockState
    /\ m_nbOfButtonSprites = 1
    /\ Len(m_sprites) = 3
    /\ m_sprites[1].owner = "b"
    /\ m_sprites[2].owner = "a"
    /\ m_sprites[3].owner = writingCursorIdentifier
    /\ m_dynamicSprites["b"] = 0
    /\ interactiveSprites = {"b"}

\* The removal in the order of the claim: the record is first swapped to slot nb - 1
\* and nb decremented, then swap-removed against the last slot.
DemotedThenRemoved(vector, identifierMap, indexMap, nb, identifier) ==
    LET junk == CHOOSE g \in GarbageRecords : TRUE
        demoted == SwapElement(identifierMap[identifier], nb - 1, vector, identifierMap, indexMap, junk)
        last == Len(vector) - 1
        s == SwapElement(demoted.identifierMap[identifier], last, demoted.vector,
                         demoted.identifierMap, demoted.indexMap, junk)
    IN [vector |-> SubSeq(s.vector, 1, last),
        identifierMap |-> MapErase(s.identifierMap, identifier),
        indexMap |-> MapErase(s.indexMap, last),
        nb |-> nb - 1]

\* C10: when removeDynamicText / removeDynamicSprite removes a widget whose slot is
\* below n, the widget is first swapped to slot n - 1 and n is decremented, and only
\* then is the swap-remove against the last slot performed; the call leaves what
\* these steps, taken in this order, leave.
C10_DemotionOrder ==
    [][\A id \in Ids :
          /\ (~m_lockState /\ id \in DOMAIN m_dynamicTexts
                  /\ m_dynamicTexts[id] < m_nbOfButtonTexts /\ RemoveDynamicText(id)) =>
                 LET d == DemotedThenRemoved(m_texts, m_dynamicTexts,
                                             m_indexesForEachDynamicTexts, m_nbOfButtonTexts, id)
                 IN /\ status' = "running"
                    /\ m_texts' = d.vector
                    /\ m_dynamicTexts' = d.identifierMap
                    /\ m_indexesForEachDynamicTexts' = d.indexMap
                    /\ m_nbOfButtonTexts' = d.nb
          /\ (~m_lockState /\ id \in DOMAIN m_dynamicSprites
                  /\ m_dynamicSprites[id] < m_nbOfButtonSprites /\ RemoveDynamicSprite(id)) =>
                 LET d == DemotedThenRemoved(m_sprites, m_dynamicSprites,
                                             m_indexesForEachDynamicSprites, m_nbOfButtonSprites, id)
                 IN /\ status' = "running"
                    /\ m_sprites' = d.vector
                    /\ m_dynamicSprites' = d.identifierMap
                    /\ m_indexesForEachDynamicSprites' = d.indexMap
                    /\ m_nbOfButtonSprites' = d.nb]_vars

----------------------------------------------------------------------------
\* Hover and press.

\* The identifiers of the interactive widgets of a category that are shown and
\* whose region contains the cursor.
Shown(vector, identifierMap, interactive, cursorPos) ==
    {id \in interactive : /\ id \in DOMAIN identifierMap
                          /\ identifierMap[id] < Len(vector)
                          /\ ~vector[identifierMap[id] + 1].hide
                          /\ cursorPos \in Bounds(id)}

\* The identifier of lowest slot among ids.
LowestSlot(identifierMap, ids) ==
    CHOOSE id \in ids : \A other \in ids : identifierMap[id] <= identifierMap[other]

\* The shown interactive text of lowest slot that contains the cursor; failing that,
\* the shown interactive sprite of lowest slot that does; failing that, no item.
Rescan(cursorPos) ==
    LET texts == Shown(m_texts, m_dynamicTexts, interactiveTexts, cursorPos)
        sprites == Shown(m_sprites, m_dynamicSprites, interactiveSprites, cursorPos)
    IN IF texts # {}
       THEN Item(This, LowestSlot(m_dynamicTexts, texts), "text",
                 m_dynamicTexts[LowestSlot(m_dynamicTexts, texts)])
       ELSE IF sprites # {}
       THEN Item(This, LowestSlot(m_dynamicSprites, sprites), "sprite",
                 m_dynamicSprites[LowestSlot(m_dynamicSprites, sprites)])
       ELSE NoItem

\* A call of eventUpdateHovered can be made, and reads no record that is not there.
Callable ==
    /\ status = "running"
    /\ ~(FastPath /\ HoveredTarget \in {NullWrapper, DanglingWrapper})

\* C11: when eventUpdateHovered(gui, pos) is called while the hovered item is empty or
\* owned by another interface, it returns the shown interactive text of lowest slot
\* whose region contains pos; if there is none, the shown interactive sprite of lowest
\* slot whose region contains pos; if there is none, the empty item.
C11_FullScan ==
    (status = "running" /\ s_hoveredItem.igui # This) =>
        \A cursorPos \in Cursors : eventUpdateHovered(cursorPos) = Rescan(cursorPos)

\* A scan at the point where texts a and b and sprite a overlap passed over text a,
\* in slot 0 and hidden, and stopped at text b in slot 1, before any sprite.
C11_Witness ==
    /\ status = "running"
    /\ s_hoveredItem = Item(This, "b", "text", 1)
    /\ m_nbOfButtonTexts = 2
    /\ m_texts[1] = [owner |-> "a", hide |-> TRUE]
    /\ m_texts[2] = [owner |-> "b", hide |-> FALSE]
    /\ m_nbOfButtonSprites = 1
    /\ m_sprites[1] = [owner |-> "a", hide |-> FALSE]

\* C12: texts are prioritized over sprites: for every call of eventUpdateHovered(gui,
\* pos), whatever the previously hovered item, if some shown interactive text of gui
\* contains pos then the returned item is a text, never a sprite.
C12_TextsFirst ==
    Callable =>
        \A cursorPos \in Cursors :
            Shown(m_texts, m_dynamicTexts, interactiveTexts, cursorPos) # {} =>
                eventUpdateHovered(cursorPos).ptr.kind = "text"

\* The item names a widget of this interface whose hide flag is set.
HiddenItem(item) ==
    /\ item.igui = This
    /\ \/ item.ptr.kind = "text" /\ getDynamicText(item.identifier).hide
       \/ item.ptr.kind = "sprite" /\ getDynamicSprite(item.identifier).hide

\* C13: eventUpdateHovered does not check hidden elements: no call returns, or leaves
\* as hovered item, a widget whose hide flag is true at the time of the call,
\* including a widget that was hovered earlier and hidden afterwards.
C13_NeverHidden ==
    Callable =>
        \A cursorPos \in Cursors : ~HiddenItem(eventUpdateHovered(cursorPos))

\* C14: for any cursor trajectory that stays within the region of the previously
\* hovered widget, eventUpdateHovered returns the identical item that a full rescan
\* of the same interface with an empty hovered state would return.
C14_FastPathEquivalence ==
    (Callable /\ FastPath) =>
        \A cursorPos \in Bounds(s_hoveredItem.identifier) :
            eventUpdateHovered(cursorPos) = Rescan(cursorPos)

\* C15: with two overlapping interactive widgets and no mutation in between, repeated
\* calls of eventUpdateHovered with the same interface and the same cursor position
\* all return the same item as the first of those calls: the call that follows a
\* call returns what that call returned.
C15_Deterministic ==
    [][\A cursorPos \in Cursors :
          (EventUpdateHovered(cursorPos) /\ status' = "running") =>
              eventUpdateHovered(cursorPos)' = s_hoveredItem']_vars

\* Of the overlapping interactive texts a and b, both shown, a call at the point they
\* share returned a, and the same call made again returns a.
C15_Witness ==
    /\ status = "running"
    /\ s_hoveredItem = Item(This, "a", "text", 0)
    /\ interactiveTexts = {"a", "b"}
    /\ \A k \in 1..Len(m_texts) : ~m_texts[k].hide
    /\ eventUpdateHovered(1) = s_hoveredItem

\* No record of the interface has the cursor position in its region.
Outside(cursorPos) ==
    /\ \A k \in 1..Len(m_texts) : cursorPos \notin Bounds(m_texts[k].owner)
    /\ \A k \in 1..Len(m_sprites) : cursorPos \notin Bounds(m_sprites[k].owner)

\* C16: if the cursor position lies inside no widget's bounding region, every call of
\* eventUpdateHovered returns the empty item, which it leaves as the hovered item,
\* whatever item was hovered before the call.
C16_NothingHovered ==
    Callable =>
        \A cursorPos \in Cursors : Outside(cursorPos) => eventUpdateHovered(cursorPos) = NoItem

\* Sprite b is hovered, text a is interactive too, and the cursor is moved to a
\* position outside both: the call returns the empty item.
C16_Witness ==
    /\ status = "running"
    /\ s_hoveredItem = Item(This, "b", "sprite", 0)
    /\ interactiveTexts = {"a"}
    /\ Outside(0)
    /\ eventUpdateHovered(0) = NoItem

\* The hovered item is empty, or names a live interface and, when that is this one,
\* an identifier that is an interactive widget of the recorded category.
HoveredLive ==
    \/ s_hoveredItem = NoItem
    \/ s_hoveredItem.igui = Other /\ otherLive
    \/ /\ s_hoveredItem.igui = This
       /\ status # "destroyed"
       /\ \/ /\ s_hoveredItem.ptr.kind = "text"
             /\ s_hoveredItem.identifier \in DOMAIN m_dynamicTexts
             /\ m_dynamicTexts[s_hoveredItem.identifier] < m_nbOfButtonTexts
             /\ getDynamicText(s_hoveredItem.identifier).owner = s_hoveredItem.identifier
          \/ /\ s_hoveredItem.ptr.kind = "sprite"
             /\ s_hoveredItem.identifier \in DOMAIN m_dynamicSprites
             /\ m_dynamicSprites[s_hoveredItem.identifier] < m_nbOfButtonSprites
             /\ getDynamicSprite(s_hoveredItem.identifier).owner = s_hoveredItem.identifier

\* C17: in every reachable state the process-wide hovered item is either empty or
\* names a live InteractiveInterface together with an identifier that currently
\* exists in that interface as an interactive widget of the recorded category;
\* removing the hovered widget or destroying its owning interface resets it to empty.
C17_HoveredLifecycle ==
    status # "aborted" => HoveredLive

\* The callback a press on this interface is to invoke: the one its button map holds
\* under the hovered identifier, if the hovered item is its own; nullptr for none.
ButtonToInvoke ==
    IF /\ s_hoveredItem.igui = This
       /\ s_hoveredItem.identifier \in DOMAIN m_allButtons
       /\ m_allButtons[s_hoveredItem.identifier].function # nullptr
    THEN m_allButtons[s_hoveredItem.identifier].function
    ELSE nullptr

\* C18: eventPressed(gui) invokes a callback exactly when the hovered item is owned by
\* gui and gui's button map holds a non-empty callback under the hovered identifier;
\* it then invokes that callback once with gui as argument. In every other case
\* (hovered item empty or owned by another interface, no button entry, empty
\* callback, gui not interactive) it invokes nothing and changes no state.
C18_EventPressed ==
    [][/\ status = "running" => PressedFunction = ButtonToInvoke
       /\ EventPressed =>
              /\ lastInvoked' = ButtonToInvoke
              /\ lastArgument' = IF ButtonToInvoke # nullptr THEN This ELSE nullptr
              /\ UNCHANGED state
       /\ \A gui \in {Other, Basic} :
              (EventPressedOther(gui) /\ (gui = Basic \/ s_hoveredItem.igui # gui)) =>
                  /\ lastInvoked' = nullptr
                  /\ lastArgument' = nullptr
                  /\ UNCHANGED state]_vars

\* A press on the hovered sprite a has just run the callback registered for a, with
\* this interface as argument.
C18_Witness ==
    /\ status = "running"
    /\ s_hoveredItem = Item(This, "a", "sprite", 0)
    /\ m_allButtons["a"].function = "f"
    /\ lastInvoked = "f"
    /\ lastArgument = This

----------------------------------------------------------------------------
\* Calls that are to do nothing.

\* C19: removeDynamicText / removeDynamicSprite with an identifier absent from that
\* category leaves storage, both maps, the partition boundaries, the button map, the
\* hovered item and the writing text unchanged and raises no error, even when the
\* other category holds a widget with that identifier.
C19_RemoveUnknown ==
    [][\A id \in Ids :
          \/ id \notin DOMAIN m_dynamicTexts /\ RemoveDynamicText(id)
          \/ id \notin DOMAIN m_dynamicSprites /\ RemoveDynamicSprite(id)
          => UNCHANGED state]_vars

\* Text a is interactive, hovered and written on, and there is no sprite a that
\* removeDynamicSprite("a") could remove.
C19_Witness ==
    /\ status = "running"
    /\ s_hoveredItem = Item(This, "a", "text", 0)
    /\ m_writingTextIdentifier = "a"
    /\ "a" \notin DOMAIN m_dynamicSprites
    /\ "b" \in DOMAIN m_dynamicSprites

\* C20: addDynamicText / addDynamicSprite with an identifier already present in that
\* category is a no-op: the existing widget keeps its record and slot, the storage
\* size does not grow, and maps, partition boundary and button map are unchanged.
C20_AddExisting ==
    [][\A id \in Ids :
          \/ id \in DOMAIN m_dynamicTexts /\ AddDynamicText(id)
          \/ id \in DOMAIN m_dynamicSprites /\ AddDynamicSprite(id)
          => UNCHANGED state]_vars

\* Sprite a is interactive in slot 0 before the writing cursor, the storage has room
\* for one more sprite, and text a is in slot 1 behind an untracked text.
C20_Witness ==
    /\ status = "running"
    /\ ~m_lockState
    /\ Len(m_sprites) = 2
    /\ "a" \in DOMAIN m_dynamicSprites
    /\ m_dynamicSprites["a"] = 0
    /\ m_nbOfButtonSprites = 1
    /\ Len(m_texts) = 2
    /\ "a" \in DOMAIN m_dynamicTexts
    /\ m_dynamicTexts["a"] = 1

----------------------------------------------------------------------------
\* The lock.

\* A step of a locked interface: slots, storage sizes and boundaries stay, the calls
\* that would change them end in an assertion failure, lookups return what they
\* returned, eventPressed runs the hovered button and eventUpdateHovered, where the
\* record it reads is there, completes.
LockKept ==
    /\ UNCHANGED <<m_dynamicTexts, m_dynamicSprites, m_nbOfButtonTexts, m_nbOfButtonSprites>>
    /\ Len(m_texts') = Len(m_texts)
    /\ Len(m_sprites') = Len(m_sprites)
    /\ \A id \in Ids :
           /\ (id \notin DOMAIN m_dynamicTexts /\ AddDynamicText(id)) => status' = "aborted"
           /\ (id \notin DOMAIN m_dynamicSprites /\ AddDynamicSprite(id)) => status' = "aborted"
           /\ (id \in DOMAIN m_dynamicTexts /\ RemoveDynamicText(id)) => status' = "aborted"
           /\ (id \in DOMAIN m_dynamicSprites /\ RemoveDynamicSprite(id)) => status' = "aborted"
           /\ \A function \in Funcs \cup {nullptr} :
                  (/\ \/ id \in DOMAIN m_dynamicTexts /\ m_dynamicTexts[id] >= m_nbOfButtonTexts
                      \/ id \in DOMAIN m_dynamicSprites /\ m_dynamicSprites[id] >= m_nbOfButtonSprites
                   /\ AddInteractive(id, function)) => status' = "aborted"
           /\ getDynamicText(id)' = getDynamicText(id)
           /\ getDynamicSprite(id)' = getDynamicSprite(id)
    /\ EventPressed => (status' = "running" /\ lastInvoked' = ButtonToInvoke)
    /\ \A cursorPos \in Cursors :
           (Callable /\ EventUpdateHovered(cursorPos)) => status' = "running"

C22_LockedAddInteractive ==
    [][m_lockState =>
           /\ \A id \in Ids, function \in Funcs \cup {nullptr} :
                  AddInteractive(id, function) => status' = "aborted"
           /\ UNCHANGED m_allButtons]_vars

----------------------------------------------------------------------------
\* The counts of the button map.

InteractiveText(id) ==
    id \in DOMAIN m_dynamicTexts /\ m_dynamicTexts[id] < m_nbOfButtonTexts

InteractiveSprite(id) ==
    id \in DOMAIN m_dynamicSprites /\ m_dynamicSprites[id] < m_nbOfButtonSprites

Categories(id) ==
    (IF InteractiveText(id) THEN 1 ELSE 0) + (IF InteractiveSprite(id) THEN 1 ELSE 0)

\* C30: for every identifier of the button map, the stored count is the number of
\* categories (text, sprite) in which a widget with that identifier is currently
\* interactive, and the identifier of every interactive widget has a button entry
\* (in every state of a live interface).
C30_CountAccurate ==
    status # "destroyed" =>
        /\ \A id \in DOMAIN m_allButtons : m_allButtons[id].count = Categories(id)
        /\ \A id \in Ids : Categories(id) > 0 => id \in DOMAIN m_allButtons

----------------------------------------------------------------------------
\* Compound elements.

\* C23: addSlider is idempotent: a second addSlider(gui, id, ...) for the slider the
\* first call added does nothing: the widgets, their slots, which of them are
\* interactive (only the background sprite, not the value text) and the button
\* entry of id are as the first call left them.
C23_AddSliderTwice ==
    [][\A id \in Ids :
          (lastSlider = id /\ AddSlider(id)) =>
              UNCHANGED <<textVars, spriteVars, m_nbOfButtonTexts, m_nbOfButtonSprites,
                          m_allButtons>>]_vars

----------------------------------------------------------------------------
\* The texture store.

\* C24: createTexture is idempotent on the name: when a texture is registered under
\* the name, loaded or currently unloaded, createTexture(name, ...) leaves the global
\* texture list, the name map and the reserved set as they are.
C24_CreateRegistered ==
    [][\A name \in TextureNames, shared \in {"Yes", "No"} :
          (/\ name \in DOMAIN s_accessToTextures
           /\ \/ \E loadImmediately \in BOOLEAN :
                     CreateTexture(name, "file", shared, loadImmediately)
              \/ CreateTextureFromTexture(name, shared)) =>
              UNCHANGED textureVars]_vars

\* The sprite under the identifier has claimed the reserved texture of that name.
Owns(id, name) ==
    /\ id \in DOMAIN m_dynamicSprites
    /\ InSeq(name, getDynamicSprite(id).m_uniqueTextures)

Owned(name) == \E id \in Ids : Owns(id, name)

\* The name is in the name map and its holder is in the list.
Registered(name) ==
    /\ name \in DOMAIN s_accessToTextures
    /\ \E k \in 1..Len(s_allTextures) : s_allTextures[k].address = s_accessToTextures[name]

\* The step takes a registered name and its holder out of the list, the name map
\* and the reserved set.
Unregistered(name) ==
    /\ name \notin DOMAIN s_accessToTextures'
    /\ \A k \in 1..Len(s_allTextures') : s_allTextures'[k].address # s_accessToTextures[name]
    /\ s_accessToTextures[name] \notin DOMAIN s_allUniqueTextures'

\* The step destroys a sprite that has claimed the name.
OwnerDestroyed(name) == \E id \in Ids : Owns(id, name) /\ RemoveTexturedSprite(id)

\* C25: a reserved texture claimed by a sprite stays registered in the global store
\* (list, name map and reserved set) for as long as that sprite lives, also while
\* the sprite is moved between slots by swapElement or by the growth of the vector,
\* and it is removed from the list, the name map and the reserved set exactly when
\* the owning sprite is destroyed, e.g. by removeDynamicSprite.
C25_ReservedLifecycle ==
    [][status' = "running" =>
          \A name \in TextureNames :
              /\ Owned(name)' =>
                     (Registered(name)' /\ s_accessToTextures'[name] \in DOMAIN s_allUniqueTextures')
              /\ (Registered(name) /\ OwnerDestroyed(name)) => Unregistered(name)
              /\ (Owned(name) /\ Registered(name) /\ ~Registered(name)') => OwnerDestroyed(name)]_vars

\* C25, amended: in a debug build as stated; in a release build the entry of the
\* reserved set is dropped when the sprite claims the texture, and the texture leaves
\* the list and the name map when the owning sprite is destroyed or, unchecked, when
\* removeTexture is called on it.
C25_ReservedLifecycleBuilds ==
    [][status' = "running" =>
          \A name \in TextureNames :
              /\ build = "debug" =>
                     (Owned(name)' =>
                          /\ Registered(name)'
                          /\ s_accessToTextures'[name] \in DOMAIN s_allUniqueTextures')
              /\ (Registered(name) /\ OwnerDestroyed(name)) => Unregistered(name)
              /\ (Owned(name) /\ Registered(name) /\ ~Registered(name)') =>
                     \/ OwnerDestroyed(name)
                     \/ build = "release" /\ RemoveTexture(name)
              /\ (build = "release" /\ ~Owned(name) /\ Owned(name)') =>
                     s_accessToTextures[name] \notin DOMAIN s_allUniqueTextures']_vars

\* Sprite a and its reserved texture t are gone; sprite b, moved into slot 0 by the
\* removal, still has its reserved texture u registered.
C25_Witness ==
    /\ status = "running"
    /\ DOMAIN m_dynamicSprites = {"b"}
    /\ m_dynamicSprites["b"] = 0
    /\ Owns("b", "u")
    /\ Registered("u")
    /\ s_accessToTextures["u"] = 2
    /\ "t" \notin DOMAIN s_accessToTextures
    /\ Len(s_allTextures) = 1

\* C26: switchToNextTexture(offset) treats the texture vector as circular: for N >= 1
\* textures, current index c and any positive or negative offset, the new index is
\* the non-negative value of (c + offset) mod N, so that offset -1 from index 0
\* selects index N - 1.
C26_Circular ==
    [][\A offset \in -MaxOffset..MaxOffset :
          SwitchToNextTexture(offset) =>
              m_curTextureIndex' = (m_curTextureIndex + offset) % Len(m_textures)]_vars

----------------------------------------------------------------------------
\* The multiple-question box.

\* C27: checkBox with atLeastOne = true: on a multiple-question box of at least two
\* boxes of which at least one is checked, every checkBox call with an index in range
\* leaves at least one box checked (so that, from such a box, any sequence of calls
\* does, whatever the fixed value of multipleChoices).
C27_AtLeastOne ==
    [][\A check \in 0..(MaxBoxes - 1) :
          (/\ atLeastOne
           /\ Len(mqbBoxes) >= 2
           /\ check < Len(mqbBoxes)
           /\ CheckedOf(mqbBoxes) # <<>>
           /\ CheckBox(check)) =>
              CheckedOf(mqbBoxes') # <<>>]_vars

\* checkBox(0) has just returned on a box that must keep one box checked, with box 0
\* the only one checked.
C27_Witness ==
    /\ build = "debug"
    /\ status = "running"
    /\ atLeastOne
    /\ multipleChoices
    /\ lastCheck = 0
    /\ mqbBoxes = <<1, 0>>

\* C28: checkBox with multipleChoices = false: on a multiple-question box with at
\* most one checked box, every checkBox call with an index in range leaves at most
\* one box checked (so that, from such a box, any sequence of calls does, whatever
\* the fixed value of atLeastOne).
C28_AtMostOne ==
    [][\A check \in 0..(MaxBoxes - 1) :
          (/\ ~multipleChoices
           /\ check < Len(mqbBoxes)
           /\ Len(CheckedOf(mqbBoxes)) <= 1
           /\ CheckBox(check)) =>
              Len(CheckedOf(mqbBoxes')) <= 1]_vars

\* checkBox(1) has just returned on a box of single choice: box 1 is checked and
\* box 0, which was, is not.
C28_Witness ==
    /\ status = "running"
    /\ ~multipleChoices
    /\ atLeastOne
    /\ lastCheck = 1
    /\ mqbBoxes = <<0, 1, 0>>
    /\ checkedBoxes = <<1>>

----------------------------------------------------------------------------
\* Writing.

\* C29: textEntered on an interface with a writing text set: the exit character ends
\* the writing (the writing identifier is cleared, and a later textEntered call, until
\* setWritingText is called again, changes nothing); backspace removes the last
\* character (nothing of an empty text) and does not invoke the writing function; any
\* other character is appended, and the writing function, if set, is then invoked
\* exactly once.
C29_TextEntered ==
    [][\A character \in Characters :
          (TextEntered(character) /\ status' = "running") =>
              LET text == content[m_writingTextIdentifier]
              IN IF m_writingTextIdentifier = ""
                 THEN /\ invocations' = 0
                      /\ UNCHANGED <<state, content, m_writingFunction>>
                 ELSE IF character = exitWritingCharacter
                 THEN m_writingTextIdentifier' = "" /\ invocations' = 0
                 ELSE IF character = backspaceCharacter
                 THEN /\ invocations' = 0
                      /\ content'[m_writingTextIdentifier] =
                             IF text = <<>> THEN <<>> ELSE SubSeq(text, 1, Len(text) - 1)
                 ELSE IF m_writingFunction = nullptr
                 THEN /\ invocations' = 0
                      /\ content'[m_writingTextIdentifier] = Append(text, character)
                 ELSE /\ invocations' = 1
                      /\ invokedWith' = Append(text, character)]_vars

----------------------------------------------------------------------------
\* swapElement.

\* What swapElement(index1, index2) is to make of a vector and its two maps.
Exchanged(index1, index2, vector, identifierMap, indexMap) ==
    LET swapped == SwapElement(index1, index2, vector, identifierMap, indexMap, Wrapper("garbage"))
        has1 == index1 \in DOMAIN indexMap
        has2 == index2 \in DOMAIN indexMap
        others == (DOMAIN indexMap) \ {index1, index2}
    IN /\ Len(swapped.vector) = Len(vector)
       /\ swapped.vector[index1 + 1] = vector[index2 + 1]
       /\ swapped.vector[index2 + 1] = vector[index1 + 1]
       /\ \A k \in 1..Len(vector) : k \notin {index1 + 1, index2 + 1} => swapped.vector[k] = vector[k]
       /\ DOMAIN swapped.identifierMap = DOMAIN identifierMap
       /\ \A k \in others : k \in DOMAIN swapped.indexMap /\ swapped.indexMap[k] = indexMap[k]
       /\ \A k \in others : swapped.identifierMap[indexMap[k]] = identifierMap[indexMap[k]]
       /\ DOMAIN swapped.indexMap \subseteq others \cup {index1, index2}
       /\ index1 = index2 =>
              swapped = [vector |-> vector, identifierMap |-> identifierMap, indexMap |-> indexMap]
       /\ (index1 # index2 /\ has1 /\ has2) =>
              /\ swapped.identifierMap[indexMap[index1]] = index2
              /\ swapped.identifierMap[indexMap[index2]] = index1
              /\ index1 \in DOMAIN swapped.indexMap /\ swapped.indexMap[index1] = indexMap[index2]
              /\ index2 \in DOMAIN swapped.indexMap /\ swapped.indexMap[index2] = indexMap[index1]
       /\ (index1 # index2 /\ has1 /\ ~has2) =>
              /\ swapped.identifierMap[indexMap[index1]] = index2
              /\ index2 \in DOMAIN swapped.indexMap /\ swapped.indexMap[index2] = indexMap[index1]
              /\ index1 \notin DOMAIN swapped.indexMap
       /\ (index1 # index2 /\ ~has1 /\ has2) =>
              /\ swapped.identifierMap[indexMap[index2]] = index1
              /\ index1 \in DOMAIN swapped.indexMap /\ swapped.indexMap[index1] = indexMap[index2]
              /\ index2 \notin DOMAIN swapped.indexMap
       /\ (~has1 /\ ~has2) =>
              swapped.identifierMap = identifierMap /\ swapped.indexMap = indexMap

\* C31: swapElement(i, j) with both indices in range exchanges the two records and
\* keeps the maps consistent: with both slots tracked each identifier maps to the
\* other slot and the reverse entries are exchanged; with one slot tracked its
\* identifier maps to the other index, which has the reverse entry, and the old index
\* has none; with neither tracked both maps are unchanged; with i = j nothing changes.
C31_SwapElement ==
    \A index1 \in 0..(Len(m_texts) - 1), index2 \in 0..(Len(m_texts) - 1) :
        Exchanged(index1, index2, m_texts, m_dynamicTexts, m_indexesForEachDynamicTexts)

\* swapElement(0, 1) has exchanged the tracked text "a" with a text that is not
\* tracked: "a" is in slot 1, named and tracked there, and slot 0 is not tracked.
C31_Witness ==
    /\ status = "running"
    /\ lastSwapped = <<"texts", 0, 1>>
    /\ Len(m_texts) >= 2
    /\ m_texts[2].owner = "a"
    /\ m_texts[1].owner = Static
    /\ m_dynamicTexts = [k \in {"a"} |-> 1]
    /\ DOMAIN m_indexesForEachDynamicTexts = {1}

----------------------------------------------------------------------------
\* The two categories.

\* The slot assignments, the identifier map, the reverse map and the partition
\* boundary of the sprites, and those of the texts.
SpriteCategory ==
    <<[k \in 1..Len(m_sprites) |-> m_sprites[k].owner], m_dynamicSprites,
      m_indexesForEachDynamicSprites, m_nbOfButtonSprites>>
TextCategory ==
    <<[k \in 1..Len(m_texts) |-> m_texts[k].owner], m_dynamicTexts,
      m_indexesForEachDynamicTexts, m_nbOfButtonTexts>>

\* addInteractive has a sprite, or a text, to promote.
PromotesSprite(identifier) ==
    identifier \in DOMAIN m_dynamicSprites /\ m_dynamicSprites[identifier] >= m_nbOfButtonSprites
PromotesText(identifier) ==
    identifier \in DOMAIN m_dynamicTexts /\ m_dynamicTexts[identifier] >= m_nbOfButtonTexts

\* C32: addDynamicText, removeDynamicText and the text half of addInteractive never
\* change the slot assignments, the identifier map, the reverse map or the partition
\* boundary of the sprites, and addDynamicSprite, removeDynamicSprite and the sprite
\* half of addInteractive never change those of the texts.
C32_CategoryIndependence ==
    [][\A id \in Ids :
          /\ (\/ AddDynamicText(id)
              \/ RemoveDynamicText(id)
              \/ ~PromotesSprite(id) /\ AddInteractive(id, nullptr)) => UNCHANGED SpriteCategory
          /\ (\/ AddDynamicSprite(id)
              \/ RemoveDynamicSprite(id)
              \/ ~PromotesText(id) /\ AddInteractive(id, nullptr)) => UNCHANGED TextCategory]_vars

\* Next to the sprite "b", which is not interactive, and the interactive sprite "a",
\* the text "a" has been added and promoted, and the sprite "b" has not followed.
C32_Witness ==
    /\ status = "running"
    /\ m_dynamicTexts = [k \in {"a", "b"} |-> IF k = "a" THEN 0 ELSE 1]
    /\ m_nbOfButtonTexts = 1
    /\ "b" \in DOMAIN m_dynamicSprites
    /\ "a" \in DOMAIN m_dynamicSprites
    /\ m_dynamicSprites["a"] < m_nbOfButtonSprites
    /\ m_dynamicSprites["b"] >= m_nbOfButtonSprites
    /\ m_writingTextIdentifier = "b"

\* The preconditions that checkBox asserts.
CheckBoxPreconditions(check) ==
    /\ check > -1 /\ check < Len(mqbBoxes)
    /\ Len(mqbBoxes) # 1 \/ ~atLeastOne
    /\ ~atLeastOne \/ CheckedOf(mqbBoxes) # <<>>
    /\ multipleChoices \/ Len(CheckedOf(mqbBoxes)) <= 1

\* C33: for every checkBox call that satisfies the preconditions, the returned list
\* holds exactly the indexes of the boxes that show the checked texture (current
\* texture index 1) after the call, each index once.
C33_ResultConsistent ==
    [][\A check \in 0..(MaxBoxes - 1) :
          (CheckBoxPreconditions(check) /\ CheckBox(check)) =>
              /\ \A i \in 0..(Len(mqbBoxes') - 1) :
                     (mqbBoxes'[i + 1] = 1) <=> InSeq(i, checkedBoxes')
              /\ \A k, l \in 1..Len(checkedBoxes') :
                     checkedBoxes'[k] = checkedBoxes'[l] => k = l
              /\ \A k \in 1..Len(checkedBoxes') : checkedBoxes'[k] \in 0..(Len(mqbBoxes') - 1)]_vars

\* checkBox(2) has just returned on a box of multiple choices with box 0 checked:
\* boxes 0 and 2 show the checked texture, and the call returned both.
C33_Witness ==
    /\ build = "debug"
    /\ status = "running"
    /\ multipleChoices
    /\ lastCheck = 2
    /\ mqbBoxes = <<1, 0, 1>>
    /\ checkedBoxes = <<0, 2>>

----------------------------------------------------------------------------
\* The collection of all interfaces.

\* The interfaces listed under a window.
Listed(window) ==
    IF window \in DOMAIN s_allInterfaces
    THEN {s_allInterfaces[window][k] : k \in 1..Len(s_allInterfaces[window])}
    ELSE {}

\* C34: after any sequence of constructions, move constructions, move assignments
\* and destructions, s_allInterfaces lists under each window exactly the live
\* interfaces whose m_window is that window, every live interface, a moved-from one
\* included, has the entry its destructor looks for, and no entry is the address of
\* an interface that is destroyed.
C34_Registry ==
    /\ \A window \in Windows :
           Listed(window) = {interface \in liveInterfaces : m_window[interface] = window}
    /\ \A interface \in liveInterfaces :
           Found(s_allInterfaces, m_window[interface], interface)
    /\ \A window \in DOMAIN s_allInterfaces : Listed(window) \subseteq liveInterfaces

----------------------------------------------------------------------------
\* The indexes given to swapElement.

\* swapElement(index1, index2) on a vector of that size has both indexes in range.
InRange(index1, index2, size) == index1 < size /\ index2 < size

\* The swapElement calls that addInteractive and the removals would make now are in
\* range of the vector they are made on: the promotion swaps the slot of the widget
\* with the boundary, the removal of an interactive widget swaps its old slot with
\* the boundary less one in the vector that the base removal has shortened.
SwapsInRange(vector, identifierMap, indexMap, nb) ==
    \A id \in DOMAIN identifierMap :
        LET index == identifierMap[id]
            last == Len(vector) - 1
            base == SwapElement(last, index, vector, identifierMap, indexMap, Wrapper("garbage"))
        IN /\ index >= nb => InRange(index, nb, Len(vector))
           /\ InRange(last, index, Len(vector))
           /\ index < nb => InRange(index, nb - 1, Len(SubSeq(base.vector, 1, last)))

\* C35: no public operation of an unlocked InteractiveInterface calls swapElement
\* with an index out of range of the storage, whatever the sequence of add,
\* addInteractive and remove calls before it, also when all widgets of the category
\* of the widget removed are interactive and when the widget is the only one.
C35_SwapInRange ==
    (status = "running" /\ ~m_lockState) =>
        /\ SwapsInRange(m_texts, m_dynamicTexts, m_indexesForEachDynamicTexts, m_nbOfButtonTexts)
        /\ SwapsInRange(m_sprites, m_dynamicSprites, m_indexesForEachDynamicSprites,
                        m_nbOfButtonSprites)

----------------------------------------------------------------------------
\* The handle of the hovered item.

\* C36: whenever eventUpdateHovered takes the fast path on a locked interface, the
\* pointer stored in the hovered item is to the widget that the hovered identifier
\* now names, also when the item was hovered while the interface was not locked and
\* widgets were added, promoted or removed before lockInterface.
C36_HandleCurrent ==
    (status = "running" /\ m_lockState /\ FastPath) =>
        IF s_hoveredItem.ptr.kind = "text"
        THEN /\ s_hoveredItem.identifier \in DOMAIN m_dynamicTexts
             /\ m_dynamicTexts[s_hoveredItem.identifier] = s_hoveredItem.ptr.slot
        ELSE /\ s_hoveredItem.identifier \in DOMAIN m_dynamicSprites
             /\ m_dynamicSprites[s_hoveredItem.identifier] = s_hoveredItem.ptr.slot
====
